---------------------------- MODULE Spec2Model ----------------------------
(***************************************************************************)
(* Face-anonymization pipeline (backend/services/pcd_main.py,              *)
(* backend/mainDNN.py), the audio recorder                                 *)
(* (backend/services/audio_recorder.py) and the Flask backend              *)
(* (backend/app.py) as state machines.                                     *)
(*                                                                         *)
(* Eight specifications share the variables:                               *)
(*   Spec       the controller loop of pcd_main.py / mainDNN.py, one       *)
(*              action per step of an iteration and per cleanup step;      *)
(*   SinkSpec   start_recording() / stop_recording() called directly, in   *)
(*              any order (they are module-level functions);               *)
(*   AudioSpec  one AudioRecorder with its caller, its reader thread and   *)
(*              its writer thread, one action per atomic step;             *)
(*   AudioFair  AudioSpec with weak fairness on every thread;              *)
(*   DeviceSpec the audio device resolution of AudioRecorder.start(): the  *)
(*              candidate list and the open attempts, over every small     *)
(*              system of devices;                                         *)
(*   CameraSpec the camera resolution at startup: the requested device     *)
(*              and the scan of the indices 0..4;                          *)
(*   FrameSpec  one frame from the detection loop to the sinks: the        *)
(*              detections, the blur of each box, the texts drawn;         *)
(*   BackendSpec the Flask backend (backend/app.py): its import of         *)
(*              services.pcd_main, the subprocess, /upload_frame.          *)
(***************************************************************************)
EXTENDS Integers, Sequences, FiniteSets, TLC

\* ------------------------------------------------------------------ bounds
\* Frames the source yields before the model stops reading.
MaxFrames == 4
\* cv2.VideoWriter objects created in one run.
MaxWriters == 5
\* Audio devices PortAudio enumerates.
MaxDevices == 3
\* Largest camera index given with --device.
MaxCamIndex == 9

\* Detections looped over on one frame.
MaxDetections == 2

\* Columns and rows of a frame.
FrameW == 13

FrameH == 12

\* Images broadcast by the backend in one run.
MaxUploads == 3

\* for i in range(0, 5): the camera indices the scan tries are 0..SCAN_COUNT-1.
SCAN_COUNT == 5

\* AudioRecorder.start() calls that pass the early return (sessions).
MaxStarts == 2
\* Chunks the audio device yields in one run.
MaxChunks == 4
\* Capacity the model gives the audio queue when smaller than QUEUE_MAXSIZE.
MaxQueue == 2

\* queue.Queue(maxsize=32)
QUEUE_MAXSIZE == 32

\* The queue's capacity in the model: the code's, cut to the bound.
QueueCap == IF MaxQueue < QUEUE_MAXSIZE THEN MaxQueue ELSE QUEUE_MAXSIZE

\* Python's None for a handle-valued variable (handles are 1, 2, ...); in the
\* audio queue, the sentinel stop() enqueues (chunks are 1, 2, ...).
None == 0

Sessions == 1..MaxStarts

\* A frame: where its pixels come from (0: the image decoded at startup,
\* i >= 1: the i-th frame read from the capture) and what has been drawn on it.
DecodedImage == [origin |-> 0, marks |-> {}]

\* No frame: the value of img before the first read, of image_source when the
\* source is a capture.
NoFrame == [origin |-> 0 - 1, marks |-> {}]

WriterIds == 1..MaxWriters

\* ------------------------------------------------------------------ state
VARIABLES
    \* --- controller loop (pcd_main.py / mainDNN.py)
    script,           \* which script runs: "pcd_main" or "mainDNN"
    image_source,     \* pcd_main: TRUE when --source is a still image
    image_data,       \* pcd_main: the pixels of the image decoded at startup
    img_in,           \* the frame the current iteration got from the source
    img,              \* the current iteration's working frame
    no_upload,        \* pcd_main: args.no_upload
    backend_url,      \* pcd_main: TRUE when BACKEND_URL is set and non-empty
    pc,               \* position of the main thread in the loop / cleanup
    iter,             \* number of frames read so far (the current frame's id)
    blur_type,        \* 'gaussian' | 'mosaic'
    blur_enabled,
    recording,
    video_writer,     \* None or the id of the current cv2.VideoWriter
    display_enabled,
    use_cv2_display,  \* pcd_main: the startup probe cv2.namedWindow('test') worked
    nwriters,         \* cv2.VideoWriter objects constructed so far
    open_writers,     \* ids of writers that opened and were not released
    frames,           \* frames[h]: the frame ids written to writer h, in order
    session,          \* session[h]: iter at h's start (from) and release (to),
                      \* and nwriters at its release (made)
    imshow_calls,     \* cv2.imshow calls so far
    display_failed,   \* a cv2.imshow call raised cv2.error
    attempted,        \* sinks attempted in the current iteration
    failed,           \* sinks that failed in the current iteration
    relay_log,        \* last send_frame_to_backend call: outcome and return value
    released,         \* cleanup steps done, in order
    last_call,        \* SinkSpec: the last direct call and what it returned
    \* --- AudioRecorder (audio_recorder.py)
    a_pc,             \* the caller: "idle" or its position inside stop()
    a_ret,            \* the last start()/stop() call and what it returned
    stop_event,       \* self._stop_event
    queue,            \* self._queue: chunk ids and None (the sentinel)
    stream,           \* self._stream: None or the session that opened it
    wave_handle,      \* self._wave_handle: None or the open file's session
    output_path,      \* self._output_path: None or the session that named it
    reader_thread,    \* self._reader_thread: None or the session's thread
    writer_thread,    \* self._writer_thread: None or the session's thread
    rpc,              \* rpc[s]: position of session s's reader thread
    rdata,            \* rdata[s]: the chunk that reader holds
    wpc,              \* wpc[s]: position of session s's writer thread
    wchunk,           \* wchunk[s]: the entry that writer holds
    nstarts,          \* sessions begun
    nchunks,          \* chunks read from the device
    enqueued,         \* chunks the reader put on the queue
    evicted,          \* entries the reader's get_nowait() removed
    file,             \* file[s]: the chunks appended to session s's WAV file
    closed_files,     \* files whose handle was closed
    stops_returned,   \* stop() calls that ran the stop sequence and returned
    \* --- audio device resolution (audio_recorder.py)
    devices,          \* the system's devices by index: name, input channels, opens
    default_dev,      \* index of the default input device, or NoIndex
    requested,        \* self.device: none, an index or a name
    candidates,       \* the list _candidate_device_indices returned
    tried,            \* the indices pyaudio.open was called with, in order
    opened,           \* the index whose stream was returned, or Unset
    d_pc,             \* "resolve" | "open" | "opened" | "raised"
    \* --- camera resolution at startup (pcd_main.py)
    device,           \* the device after argument handling: an index or a path
    cam_tried,        \* the try_open_camera calls so far: device and outcome
    used,             \* the device whose capture is kept, or NoCamera
    c_pc,             \* "open" | "scan" | "ready" | "exit"
    \* --- one frame between the flip and the sinks (pcd_main.py, mainDNN.py)
    det_log,          \* the detections looped over so far, with what was computed
    face_found,       \* the loop's flag
    writes,           \* the writes into img since the flip, in order
    sinks,            \* the frame each sink is handed: the writes it carries
    f_pc,             \* "idle" | "detect" | "marker" | "write" | "status" | "show" | "done"
    \* --- the Flask backend (app.py) and its import of services.pcd_main
    b_pc,             \* position of app.py's main thread
    import_iters,     \* iterations of the frame loop run by the import, in the server
    pcd_proc,         \* None, or 1: the Popen object of the pcd_main.py subprocess
    sub_iters,        \* iterations of the frame loop run by the subprocess
    emitted,          \* the images broadcast on the 'frame' event, in order
    response          \* status code of the last /upload_frame response, or None

pipeVars == <<script, use_cv2_display, image_source, image_data, img_in, img, no_upload, backend_url, pc, iter, blur_type,
              blur_enabled, recording, video_writer, display_enabled, nwriters,
              open_writers, frames, session, imshow_calls, display_failed,
              attempted, failed, relay_log, released, last_call>>

audioVars == <<a_pc, a_ret, stop_event, queue, stream, wave_handle, output_path,
               reader_thread, writer_thread, rpc, rdata, wpc, wchunk, nstarts,
               nchunks, enqueued, evicted, file, closed_files, stops_returned>>

deviceVars == <<devices, default_dev, requested, candidates, tried, opened, d_pc>>

cameraVars == <<device, cam_tried, used, c_pc>>

frameVars == <<det_log, face_found, writes, sinks, f_pc>>

backendVars == <<b_pc, import_iters, pcd_proc, sub_iters, emitted, response>>

vars == <<pipeVars, audioVars, deviceVars, cameraVars, frameVars, backendVars>>

\* ----------------------------------------------------------- RecordingSink

\* Mutant of start_recording: a failed open leaves the dead writer object in
\* video_writer (the `video_writer = None` of the else branch is missing).
start_recording_keeps_failed_writer(opens) ==
    /\ nwriters' = nwriters + 1
    /\ video_writer' = nwriters + 1
    /\ IF opens
       THEN /\ open_writers' = open_writers \cup {nwriters + 1}
            /\ session' = [session EXCEPT ![nwriters + 1] =
                               [from |-> iter, to |-> None, made |-> None]]
       ELSE UNCHANGED <<open_writers, session>>

\* cv2.VideoWriter(...) constructed; isOpened() is `opens`.  The previous value
\* of video_writer is overwritten without being released.
start_recording(opens) ==
    /\ nwriters' = nwriters + 1
    /\ IF opens
       THEN /\ video_writer' = nwriters + 1
            /\ open_writers' = open_writers \cup {nwriters + 1}
            /\ session' = [session EXCEPT ![nwriters + 1] =
                               [from |-> iter, to |-> None, made |-> None]]
       ELSE /\ video_writer' = None
            /\ UNCHANGED <<open_writers, session>>

stop_recording ==
    IF video_writer # None
    THEN /\ open_writers' = open_writers \ {video_writer}
         /\ session' = [session EXCEPT ![video_writer].to = iter,
                                     ![video_writer].made = nwriters]
         /\ video_writer' = None
    ELSE UNCHANGED <<video_writer, open_writers, session>>

\* ------------------------------------------------------------- RelayClient

\* requests.Response.ok: no HTTPError from raise_for_status(), i.e. the status
\* is not in 400..599.
resp_ok(code) == ~(code >= 400 /\ code < 600)

\* What one call can meet: cv2.imencode raises / returns; requests.post raises
\* (connection error, timeout) or returns a response with a status code.
RelayOutcomes ==
    {[enc |-> "raise", net |-> "none", code |-> 0]}
    \cup {[enc |-> "ok", net |-> n, code |-> 0] : n \in {"connection_error", "timeout"}}
    \cup {[enc |-> "ok", net |-> "response", code |-> c] : c \in {200, 204, 304, 404, 500}}

send_frame_to_backend(o) ==
    IF ~backend_url THEN FALSE
    ELSE IF o.enc = "raise" THEN FALSE
    ELSE IF o.net # "response" THEN FALSE
    ELSE resp_ok(o.code)

\* ------------------------------------------------------------------- Init
NoRelay == [called |-> FALSE, outcome |-> [enc |-> "ok", net |-> "none", code |-> 0],
            ret |-> FALSE]

PipeInit ==
    /\ script \in {"pcd_main", "mainDNN"}
    /\ image_source \in (IF script = "pcd_main" THEN BOOLEAN ELSE {FALSE})
    /\ no_upload \in (IF script = "pcd_main" THEN BOOLEAN ELSE {TRUE})
    /\ backend_url \in (IF script = "pcd_main" THEN BOOLEAN ELSE {FALSE})
    /\ display_enabled \in (IF script = "pcd_main" THEN BOOLEAN ELSE {TRUE})
    \* The probe is made only when display_enabled; when it fails, display_enabled
    \* stays set if matplotlib and tkinter import.
    /\ use_cv2_display \in (IF script = "pcd_main" /\ display_enabled
                            THEN BOOLEAN ELSE {display_enabled})
    /\ image_data = IF image_source THEN DecodedImage ELSE NoFrame
    /\ img_in = NoFrame
    /\ img = NoFrame
    /\ pc = "read"
    /\ iter = 0
    /\ blur_type = "gaussian"
    /\ blur_enabled = TRUE
    /\ recording = FALSE
    /\ video_writer = None
    /\ nwriters = 0
    /\ open_writers = {}
    /\ frames = [h \in WriterIds |-> <<>>]
    /\ session = [h \in WriterIds |-> [from |-> None, to |-> None, made |-> None]]
    /\ imshow_calls = 0
    /\ display_failed = FALSE
    /\ attempted = {}
    /\ failed = {}
    /\ relay_log = NoRelay
    /\ released = <<>>
    /\ last_call = [op |-> "none", ret |-> FALSE, before |-> None]

\* ------------------------------------------------------- controller loop

\* The frame after the steps between the read and the recording write:
\* img = cv2.flip(img, 1) (a new array), then, in place, the blur of each
\* detected face when blur_enabled, or the 'No Face Found!' text when no face
\* was detected.
Processed(f, any_face) ==
    [origin |-> f.origin,
     marks |-> f.marks \cup {"flip"}
               \cup (IF ~any_face THEN {"no_face_text"}
                     ELSE IF blur_enabled THEN {blur_type} ELSE {})]

\* Mutant of ReadFrame: a failed read ends the script with an error.
ReadFrame_failed_read_raises ==
    /\ pc = "read"
    /\ \E success \in (IF image_source THEN {TRUE} ELSE BOOLEAN) :
          IF success
          THEN /\ iter < MaxFrames
               /\ iter' = iter + 1
               /\ pc' = "write"
               /\ attempted' = {}
               /\ failed' = {}
               /\ img_in' = IF image_source THEN image_data
                            ELSE [origin |-> iter + 1, marks |-> {}]
               /\ \E any_face \in BOOLEAN : img' = Processed(img_in', any_face)
          ELSE /\ pc' = "crashed"
               /\ UNCHANGED <<iter, attempted, failed, img_in, img>>
    /\ UNCHANGED image_data
    /\ UNCHANGED <<script, use_cv2_display, image_source, no_upload, backend_url, blur_type,
                   blur_enabled, recording, video_writer, display_enabled, nwriters,
                   open_writers, frames, session, imshow_calls, display_failed,
                   relay_log, released, last_call, audioVars, deviceVars, cameraVars, frameVars, backendVars>>

\* if image_source is not None: img = image_source.copy(); success = True
\* else: success, img = capture.read()
\* if not success or img is None: break
\* then flip, detection, blur and the 'No Face Found!' text on img.
ReadFrame ==
    /\ pc = "read"
    /\ \E success \in (IF image_source THEN {TRUE} ELSE BOOLEAN) :
          IF success
          THEN /\ iter < MaxFrames
               /\ iter' = iter + 1
               /\ pc' = "write"
               /\ attempted' = {}
               /\ failed' = {}
               /\ img_in' = IF image_source THEN image_data
                            ELSE [origin |-> iter + 1, marks |-> {}]
               /\ \E any_face \in BOOLEAN : img' = Processed(img_in', any_face)
          ELSE /\ pc' = "cleanup"
               /\ UNCHANGED <<iter, attempted, failed, img_in, img>>
    /\ UNCHANGED image_data
    /\ UNCHANGED <<script, use_cv2_display, image_source, no_upload, backend_url, blur_type,
                   blur_enabled, recording, video_writer, display_enabled, nwriters,
                   open_writers, frames, session, imshow_calls, display_failed,
                   relay_log, released, last_call, audioVars, deviceVars, cameraVars, frameVars, backendVars>>

\* cv2.putText(img, mode_text, ...): the status line, drawn after the recording
\* write and before the frame is shown and relayed.
WithStatusText(f) == [origin |-> f.origin, marks |-> f.marks \cup {"status_text"}]

\* Mutant of WriteFrame: the write is made only while the display is enabled.
WriteFrame_gated_on_display ==
    /\ pc = "write"
    /\ IF recording /\ video_writer # None /\ display_enabled
       THEN /\ attempted' = attempted \cup {"recording"}
            /\ frames' = [frames EXCEPT ![video_writer] = Append(@, iter)]
       ELSE UNCHANGED <<frames, attempted>>
    /\ pc' = IF display_enabled THEN "show" ELSE "hrelay"
    /\ img' = WithStatusText(img)
    /\ UNCHANGED failed
    /\ UNCHANGED <<image_data, img_in, script, use_cv2_display, image_source, no_upload,
                   backend_url, iter, blur_type,
                   blur_enabled, recording, video_writer, display_enabled, nwriters,
                   open_writers, session, imshow_calls, display_failed,
                   relay_log, released, last_call, audioVars, deviceVars, cameraVars, frameVars, backendVars>>

\* Mutant of WriteFrame: the frame goes to the writer constructed last, with no
\* test of the recording flag or the handle.
WriteFrame_ungated ==
    /\ pc = "write"
    /\ IF nwriters > 0
       THEN /\ attempted' = attempted \cup {"recording"}
            /\ frames' = [frames EXCEPT ![nwriters] = Append(@, iter)]
       ELSE UNCHANGED <<frames, attempted>>
    /\ pc' = IF display_enabled THEN "show" ELSE "hrelay"
    /\ img' = WithStatusText(img)
    /\ UNCHANGED failed
    /\ UNCHANGED <<image_data, img_in, script, use_cv2_display, image_source, no_upload,
                   backend_url, iter, blur_type,
                   blur_enabled, recording, video_writer, display_enabled, nwriters,
                   open_writers, session, imshow_calls, display_failed,
                   relay_log, released, last_call, audioVars, deviceVars, cameraVars, frameVars, backendVars>>

\* if recording and video_writer is not None: video_writer.write(img)
\* The call is not inside any try: an exception it raises ends the script.
\* Then the status line is drawn on img.
WriteFrame ==
    /\ pc = "write"
    /\ IF recording /\ video_writer # None
       THEN \E raises \in BOOLEAN :
               /\ attempted' = attempted \cup {"recording"}
               /\ IF raises
                  THEN /\ failed' = failed \cup {"recording"}
                       /\ pc' = "crashed"
                       /\ UNCHANGED <<frames, img>>
                  ELSE /\ frames' = [frames EXCEPT ![video_writer] = Append(@, iter)]
                       /\ pc' = IF display_enabled THEN "show" ELSE "hrelay"
                       /\ img' = WithStatusText(img)
                       /\ UNCHANGED failed
       ELSE /\ pc' = IF display_enabled THEN "show" ELSE "hrelay"
            /\ img' = WithStatusText(img)
            /\ UNCHANGED <<frames, attempted, failed>>
    /\ UNCHANGED <<image_data, img_in, script, use_cv2_display, image_source, no_upload,
                   backend_url, iter, blur_type,
                   blur_enabled, recording, video_writer, display_enabled, nwriters,
                   open_writers, session, imshow_calls, display_failed,
                   relay_log, released, last_call, audioVars, deviceVars, cameraVars, frameVars, backendVars>>

\* pcd_main: try: cv2.imshow(...) except cv2.error: display_enabled = False
\* mainDNN:  cv2.imshow(...) with no handler.
\* Without GUI support in OpenCV (use_cv2_display false) the call always raises.
ShowFrame ==
    /\ pc = "show"
    /\ imshow_calls' = imshow_calls + 1
    /\ attempted' = attempted \cup {"display"}
    /\ \E err \in (IF use_cv2_display THEN BOOLEAN ELSE {TRUE}) :
          IF err
          THEN /\ failed' = failed \cup {"display"}
               /\ display_failed' = TRUE
               /\ IF script = "pcd_main"
                  THEN display_enabled' = FALSE /\ pc' = "relay"
                  ELSE pc' = "crashed" /\ UNCHANGED display_enabled
          ELSE /\ pc' = IF script = "pcd_main" THEN "relay" ELSE "key"
               /\ UNCHANGED <<failed, display_failed, display_enabled>>
    /\ UNCHANGED <<image_data, img_in, img, script, use_cv2_display, image_source, no_upload, backend_url, iter, blur_type,
                   blur_enabled, recording, video_writer, nwriters,
                   open_writers, frames, session, relay_log, released, last_call, audioVars, deviceVars, cameraVars, frameVars, backendVars>>

\* Mutant of RelaySend: the headless branch goes on to the key poll as well.
RelaySend_headless_polls ==
    /\ pc \in {"relay", "hrelay"}
    /\ pc' = "key"
    /\ IF no_upload
       THEN UNCHANGED <<attempted, failed, relay_log>>
       ELSE \E o \in RelayOutcomes :
               /\ attempted' = attempted \cup {"relay"}
               /\ relay_log' = [called |-> TRUE, outcome |-> o,
                                ret |-> send_frame_to_backend(o)]
               /\ failed' = IF send_frame_to_backend(o) THEN failed
                            ELSE failed \cup {"relay"}
    /\ UNCHANGED <<image_data, img_in, img, script, use_cv2_display, image_source, no_upload, backend_url, iter, blur_type,
                   blur_enabled, recording, video_writer, display_enabled, nwriters,
                   open_writers, frames, session, imshow_calls, display_failed,
                   released, last_call, audioVars, deviceVars, cameraVars, frameVars, backendVars>>

\* try: if not args.no_upload: send_frame_to_backend(img) except Exception: pass
\* (both branches of `if display_enabled`).
RelaySend ==
    /\ pc \in {"relay", "hrelay"}
    /\ pc' = IF pc = "relay" THEN "key" ELSE "sleep"
    /\ IF no_upload
       THEN UNCHANGED <<attempted, failed, relay_log>>
       ELSE \E o \in RelayOutcomes :
               /\ attempted' = attempted \cup {"relay"}
               /\ relay_log' = [called |-> TRUE, outcome |-> o,
                                ret |-> send_frame_to_backend(o)]
               /\ failed' = IF send_frame_to_backend(o) THEN failed
                            ELSE failed \cup {"relay"}
    /\ UNCHANGED <<image_data, img_in, img, script, use_cv2_display, image_source, no_upload, backend_url, iter, blur_type,
                   blur_enabled, recording, video_writer, display_enabled, nwriters,
                   open_writers, frames, session, imshow_calls, display_failed,
                   released, last_call, audioVars, deviceVars, cameraVars, frameVars, backendVars>>

Keys == {"q", "esc", "g", "m", "b", "r", "none"}

\* Mutant of ToggleRecording: the flag is flipped and not reverted when
\* start_recording() returns False.
ToggleRecording_no_revert ==
    IF ~recording
    THEN /\ nwriters < MaxWriters
         /\ \E opens \in BOOLEAN :
               /\ start_recording(opens)
               /\ recording' = TRUE
    ELSE /\ stop_recording
         /\ recording' = FALSE
         /\ UNCHANGED nwriters

\* elif key == ord('r'): recording = not recording; start or stop.
ToggleRecording ==
    IF ~recording
    THEN /\ nwriters < MaxWriters
         /\ \E opens \in BOOLEAN :
               /\ start_recording(opens)
               /\ recording' = opens
    ELSE /\ stop_recording
         /\ recording' = FALSE
         /\ UNCHANGED nwriters

\* cv2.waitKey raises cv2.error when OpenCV has no GUI support; it can raise
\* only in an iteration whose cv2.imshow raised.
WaitKeyRaises ==
    IF ~use_cv2_display THEN {TRUE}
    ELSE IF "display" \in failed THEN BOOLEAN
    ELSE {FALSE}

\* Mutant of HandleKey: the b key also selects the gaussian blur.
HandleKey_b_selects_gaussian(raises, key) ==
    /\ pc = "key"
    /\ CASE raises ->
               /\ pc' = "crashed"
               /\ UNCHANGED <<blur_type, blur_enabled, recording, video_writer,
                              nwriters, open_writers, session>>
         [] ~raises /\ (key = "q" \/ (key = "esc" /\ script = "pcd_main")) ->
               /\ pc' = "cleanup"
               /\ UNCHANGED <<blur_type, blur_enabled, recording, video_writer,
                              nwriters, open_writers, session>>
         [] ~raises /\ key = "g" ->
               /\ blur_type' = "gaussian" /\ blur_enabled' = TRUE /\ pc' = "read"
               /\ UNCHANGED <<recording, video_writer, nwriters, open_writers, session>>
         [] ~raises /\ key = "m" ->
               /\ blur_type' = "mosaic" /\ blur_enabled' = TRUE /\ pc' = "read"
               /\ UNCHANGED <<recording, video_writer, nwriters, open_writers, session>>
         [] ~raises /\ key = "b" ->
               /\ blur_enabled' = ~blur_enabled /\ pc' = "read"
               /\ blur_type' = "gaussian"
               /\ UNCHANGED <<recording, video_writer, nwriters,
                              open_writers, session>>
         [] ~raises /\ key = "r" ->
               /\ ToggleRecording /\ pc' = "read"
               /\ UNCHANGED <<blur_type, blur_enabled>>
         [] OTHER ->
               /\ pc' = "read"
               /\ UNCHANGED <<blur_type, blur_enabled, recording, video_writer,
                              nwriters, open_writers, session>>
    /\ UNCHANGED <<image_data, img_in, img, script, use_cv2_display, image_source, no_upload, backend_url, iter,
                   display_enabled, frames, imshow_calls, display_failed,
                   attempted, failed, relay_log, released, last_call, audioVars, deviceVars, cameraVars, frameVars, backendVars>>

\* Mutant of HandleKey: a poll that sees no key flips the recording flag.
HandleKey_idle_flips_recording(raises, key) ==
    /\ pc = "key"
    /\ CASE raises ->
               /\ pc' = "crashed"
               /\ UNCHANGED <<blur_type, blur_enabled, recording, video_writer,
                              nwriters, open_writers, session>>
         [] ~raises /\ (key = "q" \/ (key = "esc" /\ script = "pcd_main")) ->
               /\ pc' = "cleanup"
               /\ UNCHANGED <<blur_type, blur_enabled, recording, video_writer,
                              nwriters, open_writers, session>>
         [] ~raises /\ key = "g" ->
               /\ blur_type' = "gaussian" /\ blur_enabled' = TRUE /\ pc' = "read"
               /\ UNCHANGED <<recording, video_writer, nwriters, open_writers, session>>
         [] ~raises /\ key = "m" ->
               /\ blur_type' = "mosaic" /\ blur_enabled' = TRUE /\ pc' = "read"
               /\ UNCHANGED <<recording, video_writer, nwriters, open_writers, session>>
         [] ~raises /\ key = "b" ->
               /\ blur_enabled' = ~blur_enabled /\ pc' = "read"
               /\ UNCHANGED <<blur_type, recording, video_writer, nwriters,
                              open_writers, session>>
         [] ~raises /\ key = "r" ->
               /\ ToggleRecording /\ pc' = "read"
               /\ UNCHANGED <<blur_type, blur_enabled>>
         [] OTHER ->
               /\ pc' = "read"
               /\ recording' = ~recording
               /\ UNCHANGED <<blur_type, blur_enabled, video_writer,
                              nwriters, open_writers, session>>
    /\ UNCHANGED <<image_data, img_in, img, script, use_cv2_display, image_source, no_upload, backend_url, iter,
                   display_enabled, frames, imshow_calls, display_failed,
                   attempted, failed, relay_log, released, last_call, audioVars, deviceVars, cameraVars, frameVars, backendVars>>

\* key = cv2.waitKey(1) & 0xff and the if/elif chain on it.  The call is not
\* inside any try: an exception it raises ends the script.
HandleKey(raises, key) ==
    /\ pc = "key"
    /\ CASE raises ->
               /\ pc' = "crashed"
               /\ UNCHANGED <<blur_type, blur_enabled, recording, video_writer,
                              nwriters, open_writers, session>>
         [] ~raises /\ (key = "q" \/ (key = "esc" /\ script = "pcd_main")) ->
               /\ pc' = "cleanup"
               /\ UNCHANGED <<blur_type, blur_enabled, recording, video_writer,
                              nwriters, open_writers, session>>
         [] ~raises /\ key = "g" ->
               /\ blur_type' = "gaussian" /\ blur_enabled' = TRUE /\ pc' = "read"
               /\ UNCHANGED <<recording, video_writer, nwriters, open_writers, session>>
         [] ~raises /\ key = "m" ->
               /\ blur_type' = "mosaic" /\ blur_enabled' = TRUE /\ pc' = "read"
               /\ UNCHANGED <<recording, video_writer, nwriters, open_writers, session>>
         [] ~raises /\ key = "b" ->
               /\ blur_enabled' = ~blur_enabled /\ pc' = "read"
               /\ UNCHANGED <<blur_type, recording, video_writer, nwriters,
                              open_writers, session>>
         [] ~raises /\ key = "r" ->
               /\ ToggleRecording /\ pc' = "read"
               /\ UNCHANGED <<blur_type, blur_enabled>>
         [] OTHER ->
               /\ pc' = "read"
               /\ UNCHANGED <<blur_type, blur_enabled, recording, video_writer,
                              nwriters, open_writers, session>>
    /\ UNCHANGED <<image_data, img_in, img, script, use_cv2_display, image_source, no_upload, backend_url, iter,
                   display_enabled, frames, imshow_calls, display_failed,
                   attempted, failed, relay_log, released, last_call, audioVars, deviceVars, cameraVars, frameVars, backendVars>>

\* One poll of the keyboard, with any outcome.
PollKey == \E raises \in WaitKeyRaises : \E key \in Keys : HandleKey(raises, key)

\* Headless branch: try: time.sleep(0.01) except KeyboardInterrupt: break
Sleep ==
    /\ pc = "sleep"
    /\ \E interrupt \in BOOLEAN : pc' = IF interrupt THEN "cleanup" ELSE "read"
    /\ UNCHANGED <<image_data, img_in, img, script, use_cv2_display, image_source, no_upload, backend_url, iter, blur_type,
                   blur_enabled, recording, video_writer, display_enabled, nwriters,
                   open_writers, frames, session, imshow_calls, display_failed,
                   attempted, failed, relay_log, released, last_call, audioVars, deviceVars, cameraVars, frameVars, backendVars>>

\* Mutant of CleanupRecording: cleanup goes straight to releasing the source.
CleanupRecording_skips_stop ==
    /\ pc = "cleanup"
    /\ pc' = "release_source"
    /\ UNCHANGED <<video_writer, open_writers, session, released>>
    /\ UNCHANGED <<image_data, img_in, img, script, use_cv2_display, image_source, no_upload, backend_url, iter, blur_type,
                   blur_enabled, recording, display_enabled, nwriters,
                   frames, imshow_calls, display_failed,
                   attempted, failed, relay_log, last_call, audioVars, deviceVars, cameraVars, frameVars, backendVars>>

\* --- Cleanup ---  if recording: stop_recording()
CleanupRecording ==
    /\ pc = "cleanup"
    /\ pc' = "release_source"
    /\ IF recording THEN stop_recording
                    ELSE UNCHANGED <<video_writer, open_writers, session>>
    /\ released' = IF recording THEN Append(released, "recording") ELSE released
    /\ UNCHANGED <<image_data, img_in, img, script, use_cv2_display, image_source, no_upload, backend_url, iter, blur_type,
                   blur_enabled, recording, display_enabled, nwriters,
                   frames, imshow_calls, display_failed,
                   attempted, failed, relay_log, last_call, audioVars, deviceVars, cameraVars, frameVars, backendVars>>

\* if capture is not None: capture.release()
ReleaseSource ==
    /\ pc = "release_source"
    /\ pc' = "release_display"
    /\ released' = IF image_source THEN released ELSE Append(released, "source")
    /\ UNCHANGED <<image_data, img_in, img, script, use_cv2_display, image_source, no_upload, backend_url, iter, blur_type,
                   blur_enabled, recording, video_writer, display_enabled, nwriters,
                   open_writers, frames, session, imshow_calls, display_failed,
                   attempted, failed, relay_log, last_call, audioVars, deviceVars, cameraVars, frameVars, backendVars>>

\* if display_enabled: cv2.destroyAllWindows()   (mainDNN: unconditional)
ReleaseDisplay ==
    /\ pc = "release_display"
    /\ pc' = "done"
    /\ released' = IF display_enabled THEN Append(released, "display") ELSE released
    /\ UNCHANGED <<image_data, img_in, img, script, use_cv2_display, image_source, no_upload, backend_url, iter, blur_type,
                   blur_enabled, recording, video_writer, display_enabled, nwriters,
                   open_writers, frames, session, imshow_calls, display_failed,
                   attempted, failed, relay_log, last_call, audioVars, deviceVars, cameraVars, frameVars, backendVars>>

\* ------------------------------------------------------------ AudioRecorder

\* The controller loop before its first step, for the specifications that
\* leave it alone.
PipeIdleWith(s, t, e) ==
    /\ script = s /\ image_source = FALSE /\ no_upload = FALSE
    /\ backend_url = TRUE /\ display_enabled = TRUE /\ use_cv2_display = TRUE
    /\ image_data = NoFrame /\ img_in = NoFrame /\ img = NoFrame
    /\ pc = "read" /\ iter = 0 /\ blur_type = t /\ blur_enabled = e
    /\ recording = FALSE /\ video_writer = None /\ nwriters = 0
    /\ open_writers = {}
    /\ frames = [h \in WriterIds |-> <<>>]
    /\ session = [h \in WriterIds |-> [from |-> None, to |-> None, made |-> None]]
    /\ imshow_calls = 0 /\ display_failed = FALSE
    /\ attempted = {} /\ failed = {} /\ relay_log = NoRelay
    /\ released = <<>>
    /\ last_call = [op |-> "none", ret |-> FALSE, before |-> None]

PipeIdle == PipeIdleWith("pcd_main", "gaussian", TRUE)

\* AudioRecorder.__init__
AudioInit ==
    /\ a_pc = "idle"
    /\ a_ret = [op |-> "none", ret |-> None]
    /\ stop_event = FALSE
    /\ queue = <<>>
    /\ stream = None
    /\ wave_handle = None
    /\ output_path = None
    /\ reader_thread = None
    /\ writer_thread = None
    /\ rpc = [s \in Sessions |-> "unborn"]
    /\ rdata = [s \in Sessions |-> None]
    /\ wpc = [s \in Sessions |-> "unborn"]
    /\ wchunk = [s \in Sessions |-> None]
    /\ nstarts = 0
    /\ nchunks = 0
    /\ enqueued = {}
    /\ evicted = {}
    /\ file = [s \in Sessions |-> <<>>]
    /\ closed_files = {}
    /\ stops_returned = 0

\* start(): the early return when a stream is open; else a new session: the
\* output file is opened, the stop flag cleared, the writer thread started,
\* then the device stream opened (`opens`; when no candidate opens the call
\* raises here) and the reader thread started.
Start ==
    /\ a_pc = "idle"
    /\ IF stream # None
       THEN /\ a_ret' = [op |-> "start_noop", ret |-> output_path]
            /\ UNCHANGED <<stop_event, stream, wave_handle, output_path,
                           reader_thread, writer_thread, rpc, wpc, nstarts>>
       ELSE /\ nstarts < MaxStarts
            /\ nstarts' = nstarts + 1
            /\ output_path' = nstarts + 1
            /\ wave_handle' = nstarts + 1
            /\ stop_event' = FALSE
            /\ writer_thread' = nstarts + 1
            /\ wpc' = [wpc EXCEPT ![nstarts + 1] = "check"]
            /\ \E opens \in BOOLEAN :
                  IF opens
                  THEN /\ stream' = nstarts + 1
                       /\ reader_thread' = nstarts + 1
                       /\ rpc' = [rpc EXCEPT ![nstarts + 1] = "begin"]
                       /\ a_ret' = [op |-> "start", ret |-> nstarts + 1]
                  ELSE /\ a_ret' = [op |-> "start_raised", ret |-> None]
                       /\ UNCHANGED <<stream, reader_thread, rpc>>
    /\ UNCHANGED <<a_pc, queue, rdata, wchunk, nchunks, enqueued, evicted, file,
                   closed_files, stops_returned, pipeVars, deviceVars, cameraVars, frameVars, backendVars>>

\* Mutant of StopBegin: the early return is missing.
StopBegin_no_early_return ==
    /\ a_pc = "idle"
    /\ stop_event' = TRUE
    /\ a_pc' = "join_reader"
    /\ UNCHANGED a_ret
    /\ UNCHANGED <<queue, stream, wave_handle, output_path, reader_thread,
                   writer_thread, rpc, rdata, wpc, wchunk, nstarts, nchunks,
                   enqueued, evicted, file, closed_files, stops_returned, pipeVars, deviceVars, cameraVars, frameVars, backendVars>>

\* stop(): if self._stream is None: return self._output_path
\*         else self._stop_event.set()
StopBegin ==
    /\ a_pc = "idle"
    /\ IF stream = None
       THEN /\ a_ret' = [op |-> "stop_noop", ret |-> output_path]
            /\ UNCHANGED <<a_pc, stop_event>>
       ELSE /\ stop_event' = TRUE
            /\ a_pc' = "join_reader"
            /\ UNCHANGED a_ret
    /\ UNCHANGED <<queue, stream, wave_handle, output_path, reader_thread,
                   writer_thread, rpc, rdata, wpc, wchunk, nstarts, nchunks,
                   enqueued, evicted, file, closed_files, stops_returned, pipeVars, deviceVars, cameraVars, frameVars, backendVars>>

\* if self._reader_thread is not None: self._reader_thread.join(...)
\* finally: self._reader_thread = None
\* The join's 2.0 s limit is not modelled: the step waits until the reader
\* thread has ended, which is the case most favourable to stop().
StopJoinReader ==
    /\ a_pc = "join_reader"
    /\ reader_thread # None => rpc[reader_thread] \in {"dead", "failed"}
    /\ reader_thread' = None
    /\ a_pc' = "close_stream"
    /\ UNCHANGED <<a_ret, stop_event, queue, stream, wave_handle, output_path,
                   writer_thread, rpc, rdata, wpc, wchunk, nstarts, nchunks,
                   enqueued, evicted, file, closed_files, stops_returned, pipeVars, deviceVars, cameraVars, frameVars, backendVars>>

\* self._stream.stop_stream(); self._stream.close(); self._stream = None
StopCloseStream ==
    /\ a_pc = "close_stream"
    /\ stream' = None
    /\ a_pc' = "put_sentinel"
    /\ UNCHANGED <<a_ret, stop_event, queue, wave_handle, output_path, reader_thread,
                   writer_thread, rpc, rdata, wpc, wchunk, nstarts, nchunks,
                   enqueued, evicted, file, closed_files, stops_returned, pipeVars, deviceVars, cameraVars, frameVars, backendVars>>

\* self._queue.put(None): blocks while the queue is full.
StopPutSentinel ==
    /\ a_pc = "put_sentinel"
    /\ Len(queue) < QueueCap
    /\ queue' = Append(queue, None)
    /\ a_pc' = "join_writer"
    /\ UNCHANGED <<a_ret, stop_event, stream, wave_handle, output_path, reader_thread,
                   writer_thread, rpc, rdata, wpc, wchunk, nstarts, nchunks,
                   enqueued, evicted, file, closed_files, stops_returned, pipeVars, deviceVars, cameraVars, frameVars, backendVars>>

\* if self._writer_thread is not None: join(...); self._writer_thread = None
\* The join's 2.0 s limit is not modelled: the step waits until the writer
\* thread has ended, which is the case most favourable to stop().
StopJoinWriter ==
    /\ a_pc = "join_writer"
    /\ writer_thread # None => wpc[writer_thread] = "dead"
    /\ writer_thread' = None
    /\ a_pc' = "close_wave"
    /\ UNCHANGED <<a_ret, stop_event, queue, stream, wave_handle, output_path,
                   reader_thread, rpc, rdata, wpc, wchunk, nstarts, nchunks,
                   enqueued, evicted, file, closed_files, stops_returned, pipeVars, deviceVars, cameraVars, frameVars, backendVars>>

\* if self._wave_handle is not None: close(); self._wave_handle = None
\* return self._output_path
StopCloseWave ==
    /\ a_pc = "close_wave"
    /\ closed_files' = IF wave_handle # None THEN closed_files \cup {wave_handle}
                       ELSE closed_files
    /\ wave_handle' = None
    /\ a_pc' = "idle"
    /\ a_ret' = [op |-> "stop", ret |-> output_path]
    /\ stops_returned' = stops_returned + 1
    /\ UNCHANGED <<stop_event, queue, stream, output_path, reader_thread,
                   writer_thread, rpc, rdata, wpc, wchunk, nstarts, nchunks,
                   enqueued, evicted, file, pipeVars, deviceVars, cameraVars, frameVars, backendVars>>

\* --- reader thread of session s: _capture_loop

\* if self._stream is None: return
ReaderBegin(s) ==
    /\ rpc[s] = "begin"
    /\ rpc' = [rpc EXCEPT ![s] = IF stream = None THEN "dead" ELSE "check"]
    /\ UNCHANGED <<a_pc, a_ret, stop_event, queue, stream, wave_handle, output_path,
                   reader_thread, writer_thread, rdata, wpc, wchunk, nstarts,
                   nchunks, enqueued, evicted, file, closed_files, stops_returned,
                   pipeVars, deviceVars, cameraVars, frameVars, backendVars>>

\* while not self._stop_event.is_set():
ReaderCheck(s) ==
    /\ rpc[s] = "check"
    /\ rpc' = [rpc EXCEPT ![s] = IF stop_event THEN "dead" ELSE "read"]
    /\ UNCHANGED <<a_pc, a_ret, stop_event, queue, stream, wave_handle, output_path,
                   reader_thread, writer_thread, rdata, wpc, wchunk, nstarts,
                   nchunks, enqueued, evicted, file, closed_files, stops_returned,
                   pipeVars, deviceVars, cameraVars, frameVars, backendVars>>

\* try: data = self._stream.read(...) except Exception: break
\* The device yields the next chunk or raises; past MaxChunks it raises.
\* A reader that ended on the exception is "failed", one that ended at the
\* loop test or on an uncaught queue.Full is "dead".
ReaderRead(s) ==
    /\ rpc[s] = "read"
    /\ \E ok \in BOOLEAN :
          IF ok /\ stream # None
          THEN /\ nchunks < MaxChunks
               /\ nchunks' = nchunks + 1
               /\ rdata' = [rdata EXCEPT ![s] = nchunks + 1]
               /\ rpc' = [rpc EXCEPT ![s] = "put"]
          ELSE /\ rpc' = [rpc EXCEPT ![s] = "failed"]
               /\ UNCHANGED <<nchunks, rdata>>
    /\ UNCHANGED <<a_pc, a_ret, stop_event, queue, stream, wave_handle, output_path,
                   reader_thread, writer_thread, wpc, wchunk, nstarts,
                   enqueued, evicted, file, closed_files, stops_returned,
                   pipeVars, deviceVars, cameraVars, frameVars, backendVars>>

\* try: self._queue.put_nowait(data) except queue.Full: ...
ReaderPut(s) ==
    /\ rpc[s] = "put"
    /\ IF Len(queue) < QueueCap
       THEN /\ queue' = Append(queue, rdata[s])
            /\ enqueued' = enqueued \cup {rdata[s]}
            /\ rpc' = [rpc EXCEPT ![s] = "check"]
       ELSE /\ rpc' = [rpc EXCEPT ![s] = "evict"]
            /\ UNCHANGED <<queue, enqueued>>
    /\ UNCHANGED <<a_pc, a_ret, stop_event, stream, wave_handle, output_path,
                   reader_thread, writer_thread, rdata, wpc, wchunk, nstarts,
                   nchunks, evicted, file, closed_files, stops_returned, pipeVars, deviceVars, cameraVars, frameVars, backendVars>>

\* try: _ = self._queue.get_nowait() except queue.Empty: pass
ReaderEvict(s) ==
    /\ rpc[s] = "evict"
    /\ IF queue # <<>>
       THEN /\ queue' = Tail(queue)
            /\ evicted' = evicted \cup {Head(queue)}
       ELSE UNCHANGED <<queue, evicted>>
    /\ rpc' = [rpc EXCEPT ![s] = "put_again"]
    /\ UNCHANGED <<a_pc, a_ret, stop_event, stream, wave_handle, output_path,
                   reader_thread, writer_thread, rdata, wpc, wchunk, nstarts,
                   nchunks, enqueued, file, closed_files, stops_returned, pipeVars, deviceVars, cameraVars, frameVars, backendVars>>

\* self._queue.put_nowait(data) in the except branch: queue.Full raised here
\* is not caught and ends the thread.
ReaderPutAgain(s) ==
    /\ rpc[s] = "put_again"
    /\ IF Len(queue) < QueueCap
       THEN /\ queue' = Append(queue, rdata[s])
            /\ enqueued' = enqueued \cup {rdata[s]}
            /\ rpc' = [rpc EXCEPT ![s] = "check"]
       ELSE /\ rpc' = [rpc EXCEPT ![s] = "dead"]
            /\ UNCHANGED <<queue, enqueued>>
    /\ UNCHANGED <<a_pc, a_ret, stop_event, stream, wave_handle, output_path,
                   reader_thread, writer_thread, rdata, wpc, wchunk, nstarts,
                   nchunks, evicted, file, closed_files, stops_returned, pipeVars, deviceVars, cameraVars, frameVars, backendVars>>

\* --- writer thread of session s: _drain_queue

\* while not self._stop_event.is_set() or not self._queue.empty():
WriterCheck(s) ==
    /\ wpc[s] = "check"
    /\ wpc' = [wpc EXCEPT ![s] = IF ~stop_event \/ queue # <<>> THEN "get" ELSE "dead"]
    /\ UNCHANGED <<a_pc, a_ret, stop_event, queue, stream, wave_handle, output_path,
                   reader_thread, writer_thread, rpc, rdata, wchunk, nstarts,
                   nchunks, enqueued, evicted, file, closed_files, stops_returned,
                   pipeVars, deviceVars, cameraVars, frameVars, backendVars>>

\* try: chunk = self._queue.get(timeout=0.2) except queue.Empty: continue
WriterGet(s) ==
    /\ wpc[s] = "get"
    /\ IF queue # <<>>
       THEN /\ wchunk' = [wchunk EXCEPT ![s] = Head(queue)]
            /\ queue' = Tail(queue)
            /\ wpc' = [wpc EXCEPT ![s] = "handle"]
       ELSE /\ wpc' = [wpc EXCEPT ![s] = "check"]
            /\ UNCHANGED <<queue, wchunk>>
    /\ UNCHANGED <<a_pc, a_ret, stop_event, stream, wave_handle, output_path,
                   reader_thread, writer_thread, rpc, rdata, nstarts,
                   nchunks, enqueued, evicted, file, closed_files, stops_returned,
                   pipeVars, deviceVars, cameraVars, frameVars, backendVars>>

\* if chunk is None: break
\* if self._wave_handle is not None: self._wave_handle.writeframes(chunk)
WriterHandle(s) ==
    /\ wpc[s] = "handle"
    /\ IF wchunk[s] = None
       THEN /\ wpc' = [wpc EXCEPT ![s] = "dead"]
            /\ UNCHANGED file
       ELSE /\ wpc' = [wpc EXCEPT ![s] = "check"]
            /\ file' = IF wave_handle # None
                       THEN [file EXCEPT ![wave_handle] = Append(@, wchunk[s])]
                       ELSE file
    /\ UNCHANGED <<a_pc, a_ret, stop_event, queue, stream, wave_handle, output_path,
                   reader_thread, writer_thread, rpc, rdata, wchunk, nstarts,
                   nchunks, enqueued, evicted, closed_files, stops_returned,
                   pipeVars, deviceVars, cameraVars, frameVars, backendVars>>

Reader(s) ==
    \/ ReaderBegin(s)
    \/ ReaderCheck(s)
    \/ ReaderRead(s)
    \/ ReaderPut(s)
    \/ ReaderEvict(s)
    \/ ReaderPutAgain(s)

Writer(s) ==
    \/ WriterCheck(s)
    \/ WriterGet(s)
    \/ WriterHandle(s)

Caller ==
    \/ Start
    \/ StopBegin
    \/ StopJoinReader
    \/ StopCloseStream
    \/ StopPutSentinel
    \/ StopJoinWriter
    \/ StopCloseWave

AudioNext ==
    \/ Caller
    \/ \E s \in Sessions : Reader(s)
    \/ \E s \in Sessions : Writer(s)

\* ----------------------------------------------- one frame: detect and blur

\* confidence_threshold = 0.5, in hundredths
confidence_threshold == 50

\* k_factor = 3 in the gaussian branch of the loop
k_factor == 3

\* the divisor of mosaic_block_size = max(3, box_w // 15)
MOSAIC_DIVISOR == 15

Max(a, b) == IF a >= b THEN a ELSE b

Min(a, b) == IF a <= b THEN a ELSE b

\* Mutant of oddize: an even number is returned as it is.
oddize_keeps_even(n) == Max(3, n)

\* _oddize(n): n = max(3, int(n)); return n if (n % 2) == 1 else n + 1
oddize(n) == LET m == Max(3, n) IN IF m % 2 = 1 THEN m ELSE m + 1

\* The kernel size apply_gaussian_blur passes to cv2.GaussianBlur for an image
\* of h rows and w columns; 0 when the image is returned as it is.
\*   pcd_main: kf = max(1, int(kernel_factor))
\*             k = _oddize(max(3, min(h, w) // kf))
\*             k = min(k, max(3, min(h, w) if min(h, w) % 2 == 1 else min(h, w) - 1))
\*             if k <= 1: return image
\*   mainDNN:  k = _oddize(max(3, min(h, w) // kernel_factor))
\*             if k <= 0: return image
apply_gaussian_blur(h, w, kernel_factor) ==
    LET m == Min(h, w) IN
    IF script = "pcd_main"
    THEN IF h * w = 0 THEN 0
         ELSE LET kf == Max(1, kernel_factor)
                  k == oddize(Max(3, m \div kf))
                  kk == Min(k, Max(3, IF m % 2 = 1 THEN m ELSE m - 1))
              IN IF kk <= 1 THEN 0 ELSE kk
    ELSE LET k == oddize(Max(3, m \div kernel_factor))
         IN IF k <= 0 THEN 0 ELSE k

\* The block size apply_mosaic_blur works with: block_size = max(1, block_size)
apply_mosaic_blur(block_size) == Max(1, block_size)

\* The extent of the array slice [start:stop] on an axis of n entries: a
\* negative bound counts from the end, and both bounds are cut to 0..n.
Slice(start, stop, n) ==
    LET lo == IF start < 0 THEN Max(0, start + n) ELSE Min(start, n)
        hi == IF stop < 0 THEN Max(0, stop + n) ELSE Min(stop, n)
    IN [lo |-> lo, hi |-> Max(lo, hi)]

\* The detector's outputs for one frame: a confidence in hundredths and the
\* box corners after box.astype("int"), which may lie outside the frame.
Confidences == {confidence_threshold, 90}

XStarts == {0 - 2, 1}

XEnds == {0 - 2, 0, 2, FrameW + 2}

YStarts == {0, FrameH - 3}

YEnds == {FrameH + 1}

Detections ==
    [confidence : Confidences, startX : XStarts, startY : YStarts,
     endX : XEnds, endY : YEnds]

\* The two texts the loop draws, by their origin.
NoFaceText == [by |-> "no_face_text", roi |-> <<20, 50>>, size |-> 0]

StatusText == [by |-> "status_text", roi |-> <<10, FrameH - 10>>, size |-> 0]

NotGiven == [given |-> FALSE, writes |-> <<>>]

FrameIdle ==
    /\ det_log = <<>> /\ face_found = FALSE /\ writes = <<>>
    /\ sinks = [recording |-> NotGiven, display |-> NotGiven, relay |-> NotGiven]
    /\ f_pc = "idle"

\* After img = cv2.flip(img, 1) and net.forward(): face_found = False
FrameInit ==
    /\ det_log = <<>> /\ face_found = FALSE /\ writes = <<>>
    /\ sinks = [recording |-> NotGiven, display |-> NotGiven, relay |-> NotGiven]
    /\ f_pc = "detect"

\* Mutant of Detect: the region is blurred whether or not blur is enabled.
Detect_ignores_blur_enabled ==
    /\ f_pc = "detect"
    /\ Len(det_log) < MaxDetections
    /\ \E d \in Detections :
          LET qualifies == d.confidence > confidence_threshold
              startX == Max(0, d.startX)
              startY == Max(0, d.startY)
              endX == Min(FrameW, d.endX)
              endY == Min(FrameH, d.endY)
              xs == Slice(startX, endX, FrameW)
              ys == Slice(startY, endY, FrameH)
              roi_w == xs.hi - xs.lo
              roi_h == ys.hi - ys.lo
              blurs == qualifies /\ roi_w * roi_h > 0
              box_w == endX - startX
              k == oddize(Max(3, box_w \div k_factor))
              kernel == apply_gaussian_blur(roi_h, roi_w, k_factor)
              mosaic_block_size == Max(3, box_w \div MOSAIC_DIVISOR)
              size == IF blur_type = "gaussian" THEN kernel
                      ELSE apply_mosaic_blur(mosaic_block_size)
          IN /\ face_found' = (face_found \/ qualifies)
             /\ writes' = IF blurs
                          THEN Append(writes,
                                      [by |-> blur_type,
                                       roi |-> <<xs.lo, ys.lo, xs.hi, ys.hi>>,
                                       size |-> size])
                          ELSE writes
             /\ det_log' = Append(det_log,
                                  [confidence |-> d.confidence,
                                   startX |-> startX, startY |-> startY,
                                   endX |-> endX, endY |-> endY,
                                   roi_w |-> roi_w, roi_h |-> roi_h,
                                   box_w |-> box_w,
                                   k |-> IF blurs /\ blur_type = "gaussian"
                                         THEN k ELSE 0,
                                   blurred |-> IF blurs THEN blur_type ELSE "no",
                                   size |-> IF blurs THEN size ELSE 0])
    /\ UNCHANGED <<sinks, f_pc, pipeVars, audioVars, deviceVars, cameraVars, backendVars>>

\* One pass of the loop over the detections:
\*   if confidence > confidence_threshold:
\*       face_found = True
\*       startX = max(0, startX) ... endY = min(h, endY)
\*       face_roi = img[startY:endY, startX:endX]
\*       if face_roi.size > 0:
\*           if blur_enabled:
\*               box_w = endX - startX
\*               gaussian: k = _oddize(max(3, box_w // k_factor))
\*                         blurred = apply_gaussian_blur(face_roi, kernel_factor=k_factor)
\*               mosaic:   mosaic_block_size = max(3, box_w // 15)
\*                         blurred = apply_mosaic_blur(face_roi, block_size=mosaic_block_size)
\*               img[startY:endY, startX:endX] = blurred
\* det_log keeps, for the detection, the clamped corners, the extent of
\* face_roi, box_w, the loop's k (gaussian only) and the size the blur worked
\* with: the kernel given to cv2.GaussianBlur or the mosaic block.
Detect ==
    /\ f_pc = "detect"
    /\ Len(det_log) < MaxDetections
    /\ \E d \in Detections :
          LET qualifies == d.confidence > confidence_threshold
              startX == Max(0, d.startX)
              startY == Max(0, d.startY)
              endX == Min(FrameW, d.endX)
              endY == Min(FrameH, d.endY)
              xs == Slice(startX, endX, FrameW)
              ys == Slice(startY, endY, FrameH)
              roi_w == xs.hi - xs.lo
              roi_h == ys.hi - ys.lo
              blurs == qualifies /\ roi_w * roi_h > 0 /\ blur_enabled
              box_w == endX - startX
              k == oddize(Max(3, box_w \div k_factor))
              kernel == apply_gaussian_blur(roi_h, roi_w, k_factor)
              mosaic_block_size == Max(3, box_w \div MOSAIC_DIVISOR)
              size == IF blur_type = "gaussian" THEN kernel
                      ELSE apply_mosaic_blur(mosaic_block_size)
          IN /\ face_found' = (face_found \/ qualifies)
             /\ writes' = IF blurs
                          THEN Append(writes,
                                      [by |-> blur_type,
                                       roi |-> <<xs.lo, ys.lo, xs.hi, ys.hi>>,
                                       size |-> size])
                          ELSE writes
             /\ det_log' = Append(det_log,
                                  [confidence |-> d.confidence,
                                   startX |-> startX, startY |-> startY,
                                   endX |-> endX, endY |-> endY,
                                   roi_w |-> roi_w, roi_h |-> roi_h,
                                   box_w |-> box_w,
                                   k |-> IF blurs /\ blur_type = "gaussian"
                                         THEN k ELSE 0,
                                   blurred |-> IF blurs THEN blur_type ELSE "no",
                                   size |-> IF blurs THEN size ELSE 0])
    /\ UNCHANGED <<sinks, f_pc, pipeVars, audioVars, deviceVars, cameraVars, backendVars>>

\* The loop over range(0, detections.shape[2]) ends.
EndDetections ==
    /\ f_pc = "detect"
    /\ f_pc' = "marker"
    /\ UNCHANGED <<det_log, face_found, writes, sinks, pipeVars, audioVars,
                   deviceVars, cameraVars, backendVars>>

\* Mutant of NoFaceMarker: the text is drawn on every frame.
NoFaceMarker_always ==
    /\ f_pc = "marker"
    /\ writes' = Append(writes, NoFaceText)
    /\ f_pc' = "write"
    /\ UNCHANGED <<det_log, face_found, sinks, pipeVars, audioVars, deviceVars,
                   cameraVars, backendVars>>

\* if not face_found: cv2.putText(img, 'No Face Found!', (20, 50), ...)
NoFaceMarker ==
    /\ f_pc = "marker"
    /\ writes' = IF ~face_found THEN Append(writes, NoFaceText) ELSE writes
    /\ f_pc' = "write"
    /\ UNCHANGED <<det_log, face_found, sinks, pipeVars, audioVars, deviceVars,
                   cameraVars, backendVars>>

\* video_writer.write(img): the frame the recording is handed when one is
\* active (whether one is active is the controller loop's matter).
FrameToRecording ==
    /\ f_pc = "write"
    /\ sinks' = [sinks EXCEPT !.recording = [given |-> TRUE, writes |-> writes]]
    /\ f_pc' = "status"
    /\ UNCHANGED <<det_log, face_found, writes, pipeVars, audioVars, deviceVars,
                   cameraVars, backendVars>>

\* cv2.putText(img, mode_text, (10, img.shape[0] - 10), ...)
DrawStatus ==
    /\ f_pc = "status"
    /\ writes' = Append(writes, StatusText)
    /\ f_pc' = "show"
    /\ UNCHANGED <<det_log, face_found, sinks, pipeVars, audioVars, deviceVars,
                   cameraVars, backendVars>>

\* cv2.imshow(WINDOW_NAME, img) and send_frame_to_backend(img): the frame the
\* display and the relay are handed when they are in use.
FrameToDisplayAndRelay ==
    /\ f_pc = "show"
    /\ sinks' = [sinks EXCEPT !.display = [given |-> TRUE, writes |-> writes],
                              !.relay = [given |-> TRUE, writes |-> writes]]
    /\ f_pc' = "done"
    /\ UNCHANGED <<det_log, face_found, writes, pipeVars, audioVars, deviceVars,
                   cameraVars, backendVars>>

FrameNext ==
    \/ Detect
    \/ EndDetections
    \/ NoFaceMarker
    \/ FrameToRecording
    \/ DrawStatus
    \/ FrameToDisplayAndRelay

\* -------------------------------------------------------- Flask backend

\* What a POST to /upload_frame carries:
\*   "bad_json"     a body request.get_json(force=True) raises on
\*   "no_image"     JSON without an 'image' field (or empty)
\*   "not_base64"   an 'image' that base64.b64decode raises on
\*   "undecodable"  bytes cv2.imdecode returns None for
\*   "raises"       an image whose detection, blur or encoding raises
\*   "decodable"    an image that is decoded, blurred and encoded
UploadRequests == {"bad_json", "no_image", "not_base64", "undecodable", "raises", "decodable"}

\* process_frame_base64(img_b64): the string it returns, as the request it
\* came from and whether it went through the blur of the detected faces.
\*   frame is None:          return img_b64
\*   except Exception as e:  return img_b64   ("fallback ke gambar asli bila error")
\*   else:                   return processed_b64
process_frame_base64(img_b64) ==
    [image |-> img_b64, blurred |-> (img_b64 = "decodable")]

BackendIdle ==
    /\ b_pc = "idle" /\ import_iters = 0 /\ pcd_proc = None /\ sub_iters = 0
    /\ emitted = <<>> /\ response = None

\* python app.py, at `from services import pcd_main`
BackendInit ==
    /\ b_pc = "import" /\ import_iters = 0 /\ pcd_proc = None /\ sub_iters = 0
    /\ emitted = <<>> /\ response = None

\* The import runs the body of pcd_main.py, which is all at module level, up
\* to its main loop: the model is loaded (sys.exit(1) on cv2.error) and the
\* camera opened (sys.exit(1) when none opens).
ImportPcdMain ==
    /\ b_pc = "import"
    /\ \E model_ok \in BOOLEAN, camera_ok \in BOOLEAN :
          b_pc' = IF model_ok /\ camera_ok THEN "import_loop" ELSE "exited"
    /\ UNCHANGED <<import_iters, pcd_proc, sub_iters, emitted, response,
                   pipeVars, audioVars, deviceVars, cameraVars, frameVars>>

\* while True: one iteration of the main loop of pcd_main.py, in the process
\* that imports it.
ImportLoopIteration ==
    /\ b_pc = "import_loop"
    /\ import_iters < MaxFrames
    /\ import_iters' = import_iters + 1
    /\ UNCHANGED <<b_pc, pcd_proc, sub_iters, emitted, response,
                   pipeVars, audioVars, deviceVars, cameraVars, frameVars>>

\* The loop ends: by a break, after which the cleanup runs,
\* process_frame_base64 is defined and the import returns; or by an exception,
\* which leaves the import and ends app.py.
ImportLoopEnd ==
    /\ b_pc = "import_loop"
    /\ \E raised \in BOOLEAN : b_pc' = IF raised THEN "exited" ELSE "main"
    /\ UNCHANGED <<import_iters, pcd_proc, sub_iters, emitted, response,
                   pipeVars, audioVars, deviceVars, cameraVars, frameVars>>

\* if __name__ == '__main__': pcd_proc = _start_pcd_subprocess()
\* (None when the script is missing or Popen raises)
StartPcdSubprocess ==
    /\ b_pc = "main"
    /\ \E started \in BOOLEAN : pcd_proc' = IF started THEN 1 ELSE None
    /\ b_pc' = "run"
    /\ UNCHANGED <<import_iters, sub_iters, emitted, response,
                   pipeVars, audioVars, deviceVars, cameraVars, frameVars>>

\* socketio.run(app, host='0.0.0.0', port=5000)
RunServer ==
    /\ b_pc = "run"
    /\ b_pc' = "serving"
    /\ UNCHANGED <<import_iters, pcd_proc, sub_iters, emitted, response,
                   pipeVars, audioVars, deviceVars, cameraVars, frameVars>>

\* One iteration of the main loop in the subprocess running pcd_main.py.
SubprocessIteration ==
    /\ pcd_proc # None
    /\ sub_iters < MaxFrames
    /\ sub_iters' = sub_iters + 1
    /\ UNCHANGED <<b_pc, import_iters, pcd_proc, emitted, response,
                   pipeVars, audioVars, deviceVars, cameraVars, frameVars>>

\* upload_frame():
\*   try: data = request.get_json(force=True)
\*        if not data or 'image' not in data: return 400
\*        processed_b64 = pcd_main.process_frame_base64(data['image'])
\*        socketio.emit('frame', {'image': processed_b64}); return 200
\*   except Exception: return 500
upload_frame(req, emit_raises) ==
    /\ b_pc = "serving"
    /\ Len(emitted) < MaxUploads
    /\ CASE req = "bad_json" ->
                response' = 500 /\ UNCHANGED emitted
         [] req = "no_image" ->
                response' = 400 /\ UNCHANGED emitted
         [] OTHER ->
                IF emit_raises
                THEN response' = 500 /\ UNCHANGED emitted
                ELSE /\ emitted' = Append(emitted, process_frame_base64(req))
                     /\ response' = 200
    /\ UNCHANGED <<b_pc, import_iters, pcd_proc, sub_iters,
                   pipeVars, audioVars, deviceVars, cameraVars, frameVars>>

\* A POST to /upload_frame, from the subprocess or from any other client.
UploadFrame == \E req \in UploadRequests : \E emit_raises \in BOOLEAN : upload_frame(req, emit_raises)

BackendNext ==
    \/ ImportPcdMain
    \/ ImportLoopIteration
    \/ ImportLoopEnd
    \/ StartPcdSubprocess
    \/ RunServer
    \/ SubprocessIteration
    \/ UploadFrame

\* ------------------------------------------------------ camera resolution

\* cap is None / used is None.
NoCamera == 0 - 1

\* args.device after `device = 0` (no --device) or int(device): an index, or
\* the string left as a path when int() raises.
CameraRequests ==
    {[kind |-> "int", idx |-> i] : i \in 0..MaxCamIndex}
    \cup {[kind |-> "path", idx |-> NoCamera]}

\* The startup with a capture already chosen, for the specifications that
\* leave the camera resolution alone.
CameraIdle ==
    /\ device = [kind |-> "int", idx |-> 0]
    /\ cam_tried = <<>>
    /\ used = NoCamera
    /\ c_pc = "ready"

CameraInit ==
    /\ device \in CameraRequests
    /\ cam_tried = <<>>
    /\ used = NoCamera
    /\ c_pc = "open"

\* Mutant of ScanCamera: the scan tries the indices from the highest down.
ScanCamera_descending ==
    /\ c_pc = "scan"
    /\ LET n == Len(cam_tried) - 1
           i == [kind |-> "int", idx |-> SCAN_COUNT - 1 - n] IN
       \E opens \in BOOLEAN :
           /\ cam_tried' = Append(cam_tried, [dev |-> i, ok |-> opens])
           /\ IF opens
              THEN used' = i /\ c_pc' = "ready"
              ELSE /\ UNCHANGED used
                   /\ c_pc' = IF n + 1 < SCAN_COUNT THEN "scan" ELSE "exit"
    /\ UNCHANGED <<device, pipeVars, audioVars, deviceVars, frameVars, backendVars>>

\* cap, used = try_open_camera(device): cv2.VideoCapture(dev).isOpened().
\* if cap is None and isinstance(device, int): scan; if cap is None: sys.exit(1)
OpenCamera ==
    /\ c_pc = "open"
    /\ \E opens \in BOOLEAN :
          /\ cam_tried' = Append(cam_tried, [dev |-> device, ok |-> opens])
          /\ IF opens
             THEN used' = device /\ c_pc' = "ready"
             ELSE /\ UNCHANGED used
                  /\ c_pc' = IF device.kind = "int" THEN "scan" ELSE "exit"
    /\ UNCHANGED <<device, pipeVars, audioVars, deviceVars, frameVars, backendVars>>

\* for i in range(0, 5): cap_try, used_try = try_open_camera(i)
\*     if cap_try is not None: cap = cap_try; used = used_try; break
\* if cap is None: sys.exit(1)
ScanCamera ==
    /\ c_pc = "scan"
    /\ LET n == Len(cam_tried) - 1
           i == [kind |-> "int", idx |-> n] IN
       \E opens \in BOOLEAN :
           /\ cam_tried' = Append(cam_tried, [dev |-> i, ok |-> opens])
           /\ IF opens
              THEN used' = i /\ c_pc' = "ready"
              ELSE /\ UNCHANGED used
                   /\ c_pc' = IF n + 1 < SCAN_COUNT THEN "scan" ELSE "exit"
    /\ UNCHANGED <<device, pipeVars, audioVars, deviceVars, frameVars, backendVars>>

CameraNext ==
    \/ OpenCamera
    \/ ScanCamera

\* ------------------------------------------------- audio device resolution

\* input_device_index=None: PortAudio picks its default input device.
NoIndex == 0 - 1

\* No stream has been returned.
Unset == 0 - 2

\* Device names, by the keywords they contain.  "usb" stands for a name that
\* contains neither 'pulse' nor 'default'.
DeviceNames == {"usb", "pulse", "default"}

\* A device: its name, maxInputChannels > 0, and whether pyaudio.open on it
\* succeeds (only a device with input channels can be opened for input).
DeviceKinds ==
    {d \in [name : DeviceNames, inputs : BOOLEAN, opens : BOOLEAN] :
        d.opens => d.inputs}

\* self.device: None, an int (possibly no device's index) or a name ("mic"
\* is a name no device has).
Requests ==
    {[kind |-> "none", idx |-> NoIndex, name |-> ""]}
    \cup {[kind |-> "int", idx |-> i, name |-> ""] : i \in 0..(MaxDevices - 1)}
    \cup {[kind |-> "str", idx |-> NoIndex, name |-> n] : n \in {"usb", "pulse", "mic"}}

DeviceCount == Cardinality(DOMAIN devices)

\* def _append(idx): if idx in candidates: return; candidates.append(idx)
AppendNew(seq, idx) ==
    IF \E i \in 1..Len(seq) : seq[i] = idx THEN seq ELSE Append(seq, idx)

RECURSIVE AppendAll(_, _)
AppendAll(seq, idxs) ==
    IF idxs = <<>> THEN seq
    ELSE AppendAll(AppendNew(seq, Head(idxs)), Tail(idxs))

\* _match_device_name: the indices, ascending, of the devices whose name
\* contains the keyword and that have input channels.
RECURSIVE MatchFrom(_, _)
MatchFrom(keyword, idx) ==
    IF idx >= DeviceCount THEN <<>>
    ELSE IF devices[idx].name = keyword /\ devices[idx].inputs
         THEN <<idx>> \o MatchFrom(keyword, idx + 1)
         ELSE MatchFrom(keyword, idx + 1)

match_device_name(keyword) == MatchFrom(keyword, 0)

\* for idx in range(get_device_count()): if maxInputChannels > 0: _append; break
FirstInputDevice ==
    IF \E i \in DOMAIN devices : devices[i].inputs
    THEN <<CHOOSE i \in DOMAIN devices :
               /\ devices[i].inputs
               /\ \A j \in DOMAIN devices : devices[j].inputs => i <= j>>
    ELSE <<>>

\* Mutant of candidate_device_indices: the default input device is put before
\* the requested device.
candidate_device_indices_default_first(req) ==
    LET byDefault == IF default_dev # NoIndex THEN <<default_dev>> ELSE <<>>
        byRequest == IF req.kind = "str" THEN AppendAll(byDefault, match_device_name(req.name))
                     ELSE IF req.kind = "int" THEN AppendNew(byDefault, req.idx)
                     ELSE byDefault
        byKeyword == AppendAll(AppendAll(byRequest, match_device_name("pulse")),
                               match_device_name("default"))
        byInput   == AppendAll(byKeyword, FirstInputDevice)
    IN  AppendNew(byInput, NoIndex)

\* _candidate_device_indices(requested)
candidate_device_indices(req) ==
    LET byRequest == IF req.kind = "str" THEN AppendAll(<<>>, match_device_name(req.name))
                     ELSE IF req.kind = "int" THEN <<req.idx>>
                     ELSE <<>>
        byDefault == IF default_dev # NoIndex THEN AppendNew(byRequest, default_dev)
                     ELSE byRequest
        byKeyword == AppendAll(AppendAll(byDefault, match_device_name("pulse")),
                               match_device_name("default"))
        byInput   == AppendAll(byKeyword, FirstInputDevice)
    IN  AppendNew(byInput, NoIndex)

\* The device pyaudio.open addresses with an index: that device, the default
\* input device for None, no device (NoIndex) for an index out of range or for
\* None when there is no default.
DeviceOf(idx) ==
    IF idx = NoIndex THEN default_dev
    ELSE IF idx \in DOMAIN devices THEN idx
    ELSE NoIndex

\* pyaudio.open(..., input_device_index=idx) returns a stream (TRUE) or raises.
OpenSucceeds(idx) == DeviceOf(idx) # NoIndex /\ devices[DeviceOf(idx)].opens

\* Device resolution not under way, for the specifications that leave it alone.
DeviceIdle ==
    /\ devices = <<>>
    /\ default_dev = NoIndex
    /\ requested = [kind |-> "none", idx |-> NoIndex, name |-> ""]
    /\ candidates = <<>>
    /\ tried = <<>>
    /\ opened = Unset
    /\ d_pc = "resolve"

\* A system and a recorder's device parameter.  The default input device, when
\* there is one (get_default_input_device_info does not raise), is a device
\* with input channels.
DeviceInit ==
    /\ \E n \in 0..MaxDevices : devices \in [0..(n - 1) -> DeviceKinds]
    /\ default_dev \in {NoIndex} \cup {i \in DOMAIN devices : devices[i].inputs}
    /\ requested \in Requests
    /\ candidates = <<>>
    /\ tried = <<>>
    /\ opened = Unset
    /\ d_pc = "resolve"

\* _open_stream_with_fallback: candidates = self._candidate_device_indices(self.device)
ResolveCandidates ==
    /\ d_pc = "resolve"
    /\ candidates' = candidate_device_indices(requested)
    /\ d_pc' = "open"
    /\ UNCHANGED <<devices, default_dev, requested, tried, opened, pipeVars, audioVars, cameraVars, frameVars, backendVars>>

\* for idx in candidates: try: stream = self._pyaudio.open(...); return stream
\*                        except Exception: continue
\* raise RuntimeError(...) when the list is exhausted.
TryCandidate ==
    /\ d_pc = "open"
    /\ IF Len(tried) < Len(candidates)
       THEN LET idx == candidates[Len(tried) + 1] IN
            /\ tried' = Append(tried, idx)
            /\ IF OpenSucceeds(idx)
               THEN opened' = idx /\ d_pc' = "opened"
               ELSE UNCHANGED <<opened, d_pc>>
       ELSE /\ d_pc' = "raised"
            /\ UNCHANGED <<tried, opened>>
    /\ UNCHANGED <<devices, default_dev, requested, candidates, pipeVars, audioVars, cameraVars, frameVars, backendVars>>

DeviceNext ==
    \/ ResolveCandidates
    \/ TryCandidate

DeviceSpecInit == PipeIdle /\ AudioInit /\ DeviceInit /\ CameraIdle /\ FrameIdle /\ BackendIdle

DeviceSpec == DeviceSpecInit /\ [][DeviceNext]_vars

CameraSpecInit == PipeIdle /\ AudioInit /\ DeviceIdle /\ CameraInit /\ FrameIdle /\ BackendIdle

CameraSpec == CameraSpecInit /\ [][CameraNext]_vars

\* ------------------------------------------------- Flask backend, whole

BackendSpecInit ==
    PipeIdle /\ AudioInit /\ DeviceIdle /\ CameraIdle /\ FrameIdle /\ BackendInit

BackendSpec == BackendSpecInit /\ [][BackendNext]_vars

\* ------------------------------------------------------- one frame, whole

FrameSpecInit ==
    \E s \in {"pcd_main", "mainDNN"}, t \in {"gaussian", "mosaic"}, e \in BOOLEAN :
        PipeIdleWith(s, t, e) /\ AudioInit /\ DeviceIdle /\ CameraIdle /\ FrameInit
        /\ BackendIdle

FrameSpec == FrameSpecInit /\ [][FrameNext]_vars

\* ------------------------------------------------ AudioRecorder, whole

AudioSpecInit == PipeIdle /\ AudioInit /\ DeviceIdle /\ CameraIdle /\ FrameIdle /\ BackendIdle

AudioSpec == AudioSpecInit /\ [][AudioNext]_vars

\* Python threads are scheduled preemptively: a thread that can take a step
\* eventually takes one.  The caller is not obliged to call start() or stop(),
\* but a stop() under way continues.
StopSteps ==
    \/ StopJoinReader
    \/ StopCloseStream
    \/ StopPutSentinel
    \/ StopJoinWriter
    \/ StopCloseWave

AudioFair ==
    /\ AudioSpec
    /\ WF_vars(StopSteps)
    /\ \A s \in Sessions : WF_vars(Reader(s)) /\ WF_vars(Writer(s))

\* ---------------------------------------------------- direct calls (SinkSpec)

StartRecordingCall ==
    /\ nwriters < MaxWriters
    /\ \E opens \in BOOLEAN :
          /\ start_recording(opens)
          /\ last_call' = [op |-> "start_recording", ret |-> opens,
                           before |-> video_writer]
    /\ UNCHANGED <<image_data, img_in, img, script, use_cv2_display, image_source, no_upload, backend_url, pc, iter, blur_type,
                   blur_enabled, recording, display_enabled, frames, imshow_calls,
                   display_failed, attempted, failed, relay_log, released, audioVars, deviceVars, cameraVars, frameVars, backendVars>>

StopRecordingCall ==
    /\ stop_recording
    /\ last_call' = [op |-> "stop_recording", ret |-> FALSE, before |-> video_writer]
    /\ UNCHANGED <<image_data, img_in, img, script, use_cv2_display, image_source, no_upload, backend_url, pc, iter, blur_type,
                   blur_enabled, recording, display_enabled, nwriters, frames,
                   imshow_calls, display_failed, attempted, failed, relay_log,
                   released, audioVars, deviceVars, cameraVars, frameVars, backendVars>>

SinkNext ==
    \/ StartRecordingCall
    \/ StopRecordingCall

SinkInit == PipeIdle /\ AudioInit /\ DeviceIdle /\ CameraIdle /\ FrameIdle /\ BackendIdle

SinkSpec == SinkInit /\ [][SinkNext]_vars

Next ==
    \/ ReadFrame
    \/ WriteFrame
    \/ ShowFrame
    \/ RelaySend
    \/ PollKey
    \/ Sleep
    \/ CleanupRecording
    \/ ReleaseSource
    \/ ReleaseDisplay

Init == PipeInit /\ AudioInit /\ DeviceIdle /\ CameraIdle /\ FrameIdle /\ BackendIdle

Spec == Init /\ [][Next]_vars

\* ---------------------------------------------------------------- claims

\* A frame id sequence from+1 .. to.
FrameRun(from, to) == [i \in 1..(to - from) |-> from + i]

InSomeFile(c) == \E s \in Sessions : \E i \in 1..Len(file[s]) : file[s][i] = c

\* The state right after a stop() that ran the stop sequence has returned.
StopReturned == a_pc = "idle" /\ a_ret.op = "stop"

\* C1: in the controller loop, at the recording-write step and on entry to
\* cleanup, recording is true exactly when video_writer is not None.
C1_FlagMatchesHandle ==
    pc \in {"write", "cleanup"} => (recording <=> video_writer # None)

\* C1 witness: cleanup is entered while recording on a writer that was opened
\* after an earlier start had failed.
C1_Witness ==
    /\ pc = "cleanup" /\ recording /\ video_writer # None
    /\ \E h \in 1..(video_writer - 1) : session[h].from = None

\* C2: when stop() has returned, every chunk the reader enqueued and did not
\* evict is in an output file.
C2_NoChunkLost ==
    StopReturned => \A c \in enqueued \ evicted : InSomeFile(c)

\* C3: a start_recording() call made while a writer handle is live leaves that
\* handle in place and opens no second one.
C3_SecondStartNoOp ==
    /\ Cardinality(open_writers) <= 1
    /\ (last_call.op = "start_recording" /\ last_call.before # None)
          => video_writer = last_call.before

\* C4: a recording session started at iteration i and released at iteration j
\* holds exactly the frames i+1..j (j - i of them), and no other writer was
\* constructed while it was open.
C4_ExactlyNFrames ==
    \A h \in WriterIds :
        (session[h].from # None /\ session[h].to # None)
            => /\ frames[h] = FrameRun(session[h].from, session[h].to)
               /\ session[h].made = h

\* C4 witness: a session of at least two frames, ended by the toggle in an
\* iteration whose display present failed and whose relay send failed.
C4_Witness ==
    /\ script = "pcd_main" /\ pc = "read" /\ ~recording
    /\ "display" \in failed /\ "relay" \in failed
    /\ \E h \in WriterIds :
          /\ session[h].from # None /\ session[h].to = iter
          /\ session[h].to - session[h].from >= 2

\* C5: a stop() under way eventually returns.
C5_StopReturns == (a_pc # "idle") ~> (a_pc = "idle")

\* C6: the reader enqueues no chunk behind the sentinel; a writer thread exits
\* only once stop() has enqueued the sentinel for it; nothing is appended to a
\* file whose handle was closed.
C6_StopOrdering ==
    /\ [](\A i \in 1..Len(queue) : \A j \in 1..Len(queue) :
             (i < j /\ queue[i] = None) => queue[j] = None)
    /\ [][/\ \A s \in Sessions :
                (wpc[s] # "dead" /\ wpc'[s] = "dead")
                    => (a_pc = "join_writer" /\ writer_thread = s)
          /\ \A s \in closed_files : file'[s] = file[s]]_vars

\* C7: after stop() returns the recorder is idle: no stream, no running reader
\* or writer thread, no open output handle, and an empty queue.
C7_IdleAfterStop ==
    StopReturned =>
        /\ stream = None
        /\ reader_thread = None /\ writer_thread = None
        /\ \A s \in Sessions : rpc[s] \in {"unborn", "dead", "failed"}
        /\ \A s \in Sessions : wpc[s] \in {"unborn", "dead"}
        /\ wave_handle = None
        /\ queue = <<>>

\* C8: in pcd_main, the step in which cv2.imshow raises sets display_enabled
\* false and goes on to the relay send; once display_enabled is false it stays
\* false and cv2.imshow is not called again; and the iteration in which the
\* display failed does not end the script.
C8_DisplayDowngrade ==
    /\ []((script = "pcd_main" /\ "display" \in failed) => pc # "crashed")
    /\ [][script = "pcd_main" =>
             /\ (display_failed' /\ ~display_failed)
                   => (~display_enabled' /\ pc' = "relay")
             /\ ~display_enabled
                   => (~display_enabled' /\ imshow_calls' = imshow_calls)]_vars

\* A relay outcome that is a failure: no endpoint, encode error, network error
\* or timeout, non-2xx response.
RelayFailure(o) ==
    \/ ~backend_url
    \/ o.enc # "ok"
    \/ o.net # "response"
    \/ ~(o.code >= 200 /\ o.code < 300)

\* C9: send_frame_to_backend returns False on every failure.
C9_FalseOnEveryFailure ==
    (relay_log.called /\ RelayFailure(relay_log.outcome)) => relay_log.ret = FALSE

\* C10: in pcd_main no sink failure ends the loop, and every iteration that
\* reaches its end has attempted the relay send (unless uploads are disabled).
C10_SinkFailuresIsolated ==
    script = "pcd_main" =>
        /\ pc # "crashed"
        /\ (pc \in {"key", "sleep"} /\ ~no_upload) => "relay" \in attempted

\* C11: a toggle_recording issued while not recording whose writer fails to
\* open leaves recording false and no handle, writes no frame, leaves the blur
\* mode alone and goes on to the next frame; a writer that failed to open never
\* receives a frame; and after the failure a toggle can start a fresh writer.
C11_FailedStartAborts ==
    /\ [](\A h \in WriterIds : (h <= nwriters /\ session[h].from = None)
                                   => frames[h] = <<>>)
    /\ []((/\ pc = "key" /\ ~recording /\ use_cv2_display
           /\ nwriters >= 1 /\ nwriters < MaxWriters
           /\ session[nwriters].from = None)
              => ENABLED (PollKey /\ recording' /\ video_writer' = nwriters + 1))
    /\ [][(pc = "key" /\ nwriters' = nwriters + 1 /\ nwriters' \notin open_writers')
             => /\ ~recording' /\ video_writer' = None
                /\ open_writers' = open_writers
                /\ frames' = frames
                /\ blur_type' = blur_type /\ blur_enabled' = blur_enabled
                /\ pc' = "read"]_vars

\* C11 witness: a recording runs on a writer opened by the toggle that followed
\* a failed start, and a frame has been written to it.
C11_Witness ==
    /\ pc = "show" /\ recording /\ nwriters >= 2 /\ video_writer = nwriters
    /\ session[nwriters - 1].from = None
    /\ frames[nwriters] # <<>>

\* C12: in the controller loop at most one video writer is open at any time,
\* and when cleanup has finished every writer that was opened has been released.
C12_OneWriterAllReleased ==
    /\ Cardinality(open_writers) <= 1
    /\ open_writers \subseteq {video_writer}
    /\ pc = "done" =>
          /\ open_writers = {}
          /\ \A h \in WriterIds : session[h].from # None => session[h].to # None

\* C12 witness: the run has finished after two sessions and a failed start, the
\* last session released by cleanup.
C12_Witness ==
    /\ pc = "done" /\ nwriters >= 3
    /\ Len(released) >= 1 /\ released[1] = "recording"
    /\ session[nwriters].from # None /\ session[nwriters].to = iter
    /\ \E h \in 1..(nwriters - 1) : session[h].from # None
    /\ \E h \in 1..(nwriters - 1) : session[h].from = None

\* C13: a step that writes a frame appends it to the writer in video_writer,
\* which a start opened and no stop has released; a writer that never opened
\* holds no frame, and a released writer holds no frame later than its release.
C13_WriteOnlyWhileOpen ==
    /\ [](\A h \in WriterIds : \A i \in 1..Len(frames[h]) :
             /\ session[h].from # None
             /\ frames[h][i] > session[h].from
             /\ session[h].to # None => frames[h][i] <= session[h].to)
    /\ [][frames' # frames =>
             /\ video_writer \in open_writers
             /\ frames' = [frames EXCEPT ![video_writer] = Append(@, iter)]]_vars

\* C13 witness: a frame went to a first writer, that writer was stopped, and
\* the current frame has gone to a writer started later.
C13_Witness ==
    /\ pc \in {"show", "hrelay"}
    /\ \E h1, h2 \in WriterIds :
          /\ h1 < h2 /\ h2 = video_writer
          /\ frames[h1] # <<>> /\ session[h1].to # None
          /\ frames[h2] # <<>> /\ frames[h2][Len(frames[h2])] = iter

\* Position of a cleanup step in the order stop recording, release source,
\* release display.
CleanupRank(x) == IF x = "recording" THEN 1 ELSE IF x = "source" THEN 2 ELSE 3

\* C14: a failed read goes to cleanup with no frame delivered to any sink; the
\* cleanup steps done so far are in the order stop recording, release source,
\* release display; the recording is stopped exactly when one was active, the
\* source released when there is a capture, the display when it is enabled.
C14_OrderlyShutdown ==
    /\ [](/\ \A i \in 1..Len(released) : \A j \in 1..Len(released) :
                i < j => CleanupRank(released[i]) < CleanupRank(released[j])
          /\ pc \in {"read", "write", "show", "relay", "hrelay", "key", "sleep",
                     "cleanup", "crashed"} => released = <<>>
          /\ pc \in {"release_source", "release_display", "done"} =>
                /\ video_writer = None /\ open_writers = {}
                /\ recording <=> (released # <<>> /\ released[1] = "recording")
          /\ pc \in {"release_display", "done"} =>
                (~image_source <=> \E i \in 1..Len(released) : released[i] = "source")
          /\ pc = "done" =>
                (display_enabled <=> \E i \in 1..Len(released) : released[i] = "display"))
    /\ [][(pc = "read" /\ pc' # "read" /\ iter' = iter) =>
             /\ pc' = "cleanup"
             /\ frames' = frames /\ imshow_calls' = imshow_calls
             /\ relay_log' = relay_log /\ attempted' = attempted]_vars

\* C14 witness: cleanup has finished after stopping a recording that held the
\* last frame, releasing the capture and releasing the display.
C14_Witness ==
    /\ pc = "done" /\ released = <<"recording", "source", "display">>
    /\ \E h \in WriterIds : session[h].to = iter /\ frames[h] # <<>>

\* Positions of the main thread after the loop has ended.
LoopEnded == {"cleanup", "release_source", "release_display", "done", "crashed"}

\* C15: with a still-image source every iteration receives the image as it was
\* decoded, the decoded image is never drawn on, and the loop ends only by a
\* quit: the quit key, or Ctrl+C in the headless sleep.
C15_StillImageSource ==
    /\ []((image_source /\ iter >= 1) => img_in = DecodedImage)
    /\ [](image_source => image_data = DecodedImage)
    /\ [][(image_source /\ pc \notin LoopEnded /\ pc' \in LoopEnded)
             => (pc \in {"key", "sleep"} /\ pc' = "cleanup")]_vars

\* C16: the queue never holds more than its capacity, the reader thread always
\* has a step it can take, the reader's eviction removes the oldest entry and
\* only from a queue that is full at that moment, and the chunk that met the
\* full queue is then enqueued.
C16_DropOldestOnOverflow ==
    /\ [](Len(queue) <= QueueCap)
    /\ [](\A s \in Sessions : rpc[s] \notin {"unborn", "dead", "failed"} => ENABLED Reader(s))
    /\ [][\A s \in Sessions :
             /\ (rpc[s] = "evict" /\ rpc'[s] # "evict" /\ queue' # queue)
                   => (Len(queue) = QueueCap /\ queue' = Tail(queue))
             /\ (rpc[s] = "put_again" /\ rpc'[s] # "put_again")
                   => (queue' = Append(queue, rdata[s]) /\ rpc'[s] = "check")]_vars

\* C17: when the reader of a session ended on a device read error, a stop()
\* under way returns, and once it has returned it has returned the session's
\* path, the session's file is closed, and every chunk that was enqueued and
\* not evicted is in a file.
C17_StopAfterReadError ==
    /\ [](\A s \in Sessions :
             (StopReturned /\ a_ret.ret = s /\ rpc[s] = "failed") =>
                 /\ output_path = s
                 /\ s \in closed_files /\ wave_handle = None
                 /\ \A c \in enqueued \ evicted : InSomeFile(c))
    /\ \A s \in Sessions :
          (a_pc # "idle" /\ stream = s /\ rpc[s] = "failed") ~> (a_pc = "idle")

\* C18: while the recorder has no stream, a step that is not a start() leaves
\* the stop flag, the stream, both thread fields, the file handle and the path
\* as they are, starts no stop sequence and enqueues no sentinel; a stop() made
\* then returns the current path: None before any start(), the path the
\* completed stop() returned after it.
C18_StopIdempotent ==
    /\ []((a_ret.op = "stop_noop" /\ nstarts = 0) => a_ret.ret = None)
    /\ [](a_ret.op \in {"stop", "stop_noop"} => a_ret.ret = output_path)
    /\ [][(a_pc = "idle" /\ stream = None /\ nstarts' = nstarts) =>
             /\ a_pc' = "idle"
             /\ UNCHANGED <<stop_event, stream, reader_thread, writer_thread,
                            wave_handle, output_path, stops_returned>>
             /\ ~(Len(queue') > Len(queue) /\ queue'[Len(queue')] = None)
             /\ a_ret' # a_ret =>
                   (a_ret'.op = "stop_noop" /\ a_ret'.ret = output_path)
             /\ (a_ret.op = "stop" /\ a_ret' # a_ret) => a_ret'.ret = a_ret.ret]_vars

\* C18 witness: a second stop() has returned after a stop() that ran the stop
\* sequence, with the path of that session.
C18_Witness ==
    /\ a_ret.op = "stop_noop" /\ stops_returned >= 1
    /\ a_ret.ret = nstarts /\ a_ret.ret # None /\ nstarts \in closed_files

\* The requested device is a name that no input device has.
RequestUnmatched ==
    requested.kind = "str" /\ match_device_name(requested.name) = <<>>

\* C19: for a requested name that matches no device, the candidate list is
\* produced and starts with the default input device when there is one, and
\* the stream open fails only if no device has input channels (read in the
\* code's favour: only if no device with input channels can be opened).
C19_UnmatchedNameFallsThrough ==
    RequestUnmatched =>
        /\ (d_pc # "resolve" /\ default_dev # NoIndex) => candidates[1] = default_dev
        /\ d_pc = "raised" => ~(\E i \in DOMAIN devices : devices[i].opens)

\* The input devices whose name contains a keyword.
NamedInputs(n) == {i \in DOMAIN devices : devices[i].name = n /\ devices[i].inputs}

\* The priority class of an index: 1 the requested device (the given index, or
\* every input device whose name matches), 2 the default input device, 3 the
\* input devices named 'pulse' or 'default', 4 the first device with input
\* channels, 5 no index (PortAudio's own choice), 6 anything else.
PriorityClass(idx) ==
    IF idx = NoIndex THEN 5
    ELSE IF \/ requested.kind = "int" /\ idx = requested.idx
            \/ requested.kind = "str" /\ idx \in NamedInputs(requested.name) THEN 1
    ELSE IF idx = default_dev THEN 2
    ELSE IF idx \in NamedInputs("pulse") \cup NamedInputs("default") THEN 3
    ELSE IF idx \in DOMAIN devices /\ devices[idx].inputs
            /\ \A j \in DOMAIN devices : devices[j].inputs => idx <= j THEN 4
    ELSE 6

\* The indices that have one of the priority classes 1..last.
Prioritized(last) ==
    {i \in (0..(MaxDevices - 1)) \cup {NoIndex} : PriorityClass(i) <= last}

\* Open attempts are made in priority order, each index once, over the classes
\* 1..last; the stream returned is that of the first attempt that succeeds, all
\* indices of a higher priority having failed; the open raises only after every
\* index of the classes 1..last has been tried and failed.
TriedInPriorityOrder(last) ==
    /\ \A i \in 1..Len(tried) : PriorityClass(tried[i]) <= last
    /\ \A i \in 1..Len(tried) : \A j \in 1..Len(tried) :
          i < j => /\ tried[i] # tried[j]
                   /\ PriorityClass(tried[i]) <= PriorityClass(tried[j])
    /\ \A i \in 1..(Len(tried) - 1) : ~OpenSucceeds(tried[i])
    /\ d_pc = "opened" =>
          /\ opened = tried[Len(tried)] /\ OpenSucceeds(opened)
          /\ \A c \in Prioritized(last) :
                PriorityClass(c) < PriorityClass(opened)
                    => \E i \in 1..Len(tried) : tried[i] = c
    /\ d_pc = "raised" =>
          \A c \in Prioritized(last) :
              /\ \E i \in 1..Len(tried) : tried[i] = c
              /\ ~OpenSucceeds(c)

\* C20, as stated: the candidates are the requested device, the default input,
\* the devices named 'pulse' or 'default' and the first device with input
\* channels, tried in that order, each at most once.
C20_FourCandidateClasses == TriedInPriorityOrder(4)

\* C20, amended: after those four classes a last attempt is made with no index
\* (PortAudio's own default), and only then does the open raise.
C20_FiveCandidateClasses == TriedInPriorityOrder(5)

\* C20 witness: the requested index and the default input device failed to
\* open, and the stream is that of the first device with input channels.
C20_Witness ==
    /\ d_pc = "opened" /\ Len(tried) = 3
    /\ PriorityClass(tried[1]) = 1 /\ PriorityClass(tried[2]) = 2
    /\ PriorityClass(opened) = 4

\* C21: the first open attempt is on the requested device; further attempts
\* are made only for a numeric index, on 0, 1, 2, 3, 4 in that order, and only
\* while every earlier attempt failed; the capture kept is the one of the
\* attempt that opened; startup exits exactly when every attempt was made and
\* none opened.
C21_CameraResolution ==
    /\ Len(cam_tried) >= 1 => cam_tried[1].dev = device
    /\ \A i \in 2..Len(cam_tried) :
          /\ device.kind = "int"
          /\ i - 2 < SCAN_COUNT
          /\ cam_tried[i].dev = [kind |-> "int", idx |-> i - 2]
    /\ \A i \in 1..(Len(cam_tried) - 1) : ~cam_tried[i].ok
    /\ (c_pc = "ready") <=> (cam_tried # <<>> /\ cam_tried[Len(cam_tried)].ok)
    /\ c_pc = "ready" => used = cam_tried[Len(cam_tried)].dev
    /\ c_pc # "ready" => used = NoCamera
    /\ (c_pc = "exit") <=>
          (/\ cam_tried # <<>>
           /\ \A i \in 1..Len(cam_tried) : ~cam_tried[i].ok
           /\ Len(cam_tried) = (IF device.kind = "int" THEN SCAN_COUNT + 1 ELSE 1))

\* C21 witness: the requested index 6 and the indices 0 and 1 failed to open,
\* and the capture kept is index 2.
C21_Witness ==
    /\ c_pc = "ready" /\ device = [kind |-> "int", idx |-> 6]
    /\ Len(cam_tried) = 4 /\ used = [kind |-> "int", idx |-> 2]

\* A logged detection that cleared the threshold and whose clamped box
\* [startX, endX) x [startY, endY) is not empty.
Qualifying(r) ==
    /\ r.confidence > confidence_threshold
    /\ r.startX < r.endX
    /\ r.startY < r.endY

IsOdd(n) == n % 2 = 1

\* C22: in gaussian mode, for every detection with confidence > 0.5 and a
\* non-empty clamped box, the kernel given to the blur of the box region is
\* oddize(max(3, box_width div 3)), box_width = endX - startX.
C22_KernelFromBoxWidth ==
    (blur_enabled /\ blur_type = "gaussian") =>
        \A i \in DOMAIN det_log :
            Qualifying(det_log[i]) =>
                det_log[i].size = oddize(Max(3, det_log[i].box_w \div k_factor))

\* C23: for any two qualifying detections blurred with the gaussian kernel,
\* the one whose box is not wider gets a kernel that is not larger.
C23_KernelGrowsWithWidth ==
    \A i, j \in DOMAIN det_log :
        ( /\ Qualifying(det_log[i]) /\ det_log[i].blurred = "gaussian"
          /\ Qualifying(det_log[j]) /\ det_log[j].blurred = "gaussian"
          /\ det_log[i].box_w <= det_log[j].box_w )
        => det_log[i].size <= det_log[j].size

\* C24: for every box width w >= 0 the loop meets, oddize(max(3, w div 3)) is
\* odd and at least 3, and for every non-empty region the kernel that
\* apply_gaussian_blur gives to the blur is odd and at least 3.
C24_KernelOddAtLeastThree ==
    \A i \in DOMAIN det_log :
        /\ det_log[i].box_w >= 0 =>
              /\ IsOdd(oddize(Max(3, det_log[i].box_w \div k_factor)))
              /\ oddize(Max(3, det_log[i].box_w \div k_factor)) >= 3
        /\ det_log[i].blurred = "gaussian" =>
              /\ det_log[i].k >= 3 /\ IsOdd(det_log[i].k)
              /\ det_log[i].size >= 3 /\ IsOdd(det_log[i].size)

\* A region whose smaller side is even and whose kernel is above the minimum:
\* the quotient 4 was rounded up to 5.
C24_Witness ==
    \E i \in DOMAIN det_log :
        /\ det_log[i].blurred = "gaussian"
        /\ det_log[i].roi_w * det_log[i].roi_h > 0
        /\ Min(det_log[i].roi_h, det_log[i].roi_w) \div k_factor = 4
        /\ det_log[i].size = 5
        /\ f_pc = "done"

\* Some detection looped over has confidence strictly above the threshold.
SomeConfident == \E i \in DOMAIN det_log : det_log[i].confidence > confidence_threshold

\* The anonymization step (detection loop, blur, marker) is over.
Anonymized == f_pc \in {"write", "status", "show", "done"}

\* C25 as stated: with blur disabled, for every detection set the frame after
\* the anonymization step has no changed pixel, outside the boxes or inside.
C25_OffModeNoPixelChanged ==
    (~blur_enabled /\ f_pc = "write") => writes = <<>>

\* C25: with blur disabled, for every detection set the only pixels the
\* anonymization step changes are those of the 'No Face Found!' text, drawn
\* exactly when no detection has confidence above 0.5; no box region is
\* blurred.
C25_OffModeOnlyMarker ==
    (~blur_enabled /\ f_pc = "write") =>
        writes = IF SomeConfident THEN <<>> ELSE <<NoFaceText>>

\* Blur disabled, a confident detection with a non-empty region, the step over.
C25_Witness ==
    /\ ~blur_enabled /\ f_pc = "write"
    /\ \E i \in DOMAIN det_log :
          /\ Qualifying(det_log[i])
          /\ det_log[i].roi_w * det_log[i].roi_h > 0
    /\ writes = <<>>

\* The 'No Face Found!' text is on the frame.
MarkerDrawn == \E i \in DOMAIN writes : writes[i] = NoFaceText

\* C26 as stated: the marker is drawn iff no detection has confidence strictly
\* above 0.5, and a frame with zero detections reaches every sink with the
\* marker as its only change.
C26_MarkerAndNothingElse ==
    /\ Anonymized => (MarkerDrawn <=> ~SomeConfident)
    /\ (f_pc = "done" /\ det_log = <<>>) =>
          \A s \in DOMAIN sinks : sinks[s].given /\ sinks[s].writes = <<NoFaceText>>

\* C26: the marker is drawn iff no detection has confidence strictly above
\* 0.5, and a frame with zero detections reaches the recording with the marker
\* as its only change, and the display and the relay with the marker and the
\* status text.
C26_MarkerAndStatusText ==
    /\ Anonymized => (MarkerDrawn <=> ~SomeConfident)
    /\ (f_pc = "done" /\ det_log = <<>>) =>
          /\ \A s \in DOMAIN sinks : sinks[s].given
          /\ sinks.recording.writes = <<NoFaceText>>
          /\ sinks.display.writes = <<NoFaceText, StatusText>>
          /\ sinks.relay.writes = <<NoFaceText, StatusText>>

\* A frame with zero detections, handed to every sink.
C26_Witness ==
    /\ f_pc = "done" /\ det_log = <<>>
    /\ MarkerDrawn
    /\ sinks.display.given /\ sinks.recording.given /\ sinks.relay.given

\* A step that changes the blur mode or the recording flag.
ModeOrRecordingChanged ==
    \/ blur_type' # blur_type
    \/ blur_enabled' # blur_enabled
    \/ recording' # recording

\* A poll of the keyboard that returned a key.
KeyInput == \E key \in Keys \ {"none"} : HandleKey(FALSE, key)

\* cv2.imshow raised.
DisplayFailure == pc = "show" /\ "display" \in failed' /\ display_failed'

\* The headless sleep was interrupted.
Interrupt == pc = "sleep" /\ pc' = "cleanup"

\* The loop is left on the operator's request.
QuitRequested == pc \in {"key", "sleep"} /\ pc' = "cleanup"

PipelineStateUnchanged ==
    /\ UNCHANGED <<blur_type, blur_enabled, recording, display_enabled>>
    /\ ~QuitRequested

\* C27 as stated: mode and recording change only in the key step,
\* display_enabled changes only when the display fails, and every step of an
\* iteration other than a key input leaves the whole PipelineState unchanged.
C27_OnlyKeyInputChangesState ==
    [][ /\ ModeOrRecordingChanged => pc = "key"
        /\ display_enabled' # display_enabled => DisplayFailure
        /\ ~KeyInput => PipelineStateUnchanged ]_vars

\* C27: mode and recording change only in the key step, display_enabled
\* changes only when the display fails, and every step of an iteration other
\* than a key input, a display failure and an interrupt of the headless sleep
\* leaves the whole PipelineState unchanged.
C27_KeyFailureOrInterrupt ==
    [][ /\ ModeOrRecordingChanged => pc = "key"
        /\ display_enabled' # display_enabled => DisplayFailure
        /\ (~KeyInput /\ ~DisplayFailure /\ ~Interrupt) => PipelineStateUnchanged ]_vars

\* A third iteration begins after a key turned recording on and switched the
\* blur to mosaic and the display was lost.
C27_Witness ==
    /\ pc = "read" /\ iter >= 2
    /\ recording /\ blur_type = "mosaic"
    /\ display_failed /\ ~display_enabled

\* The instance is in its second session and both start() calls opened their
\* stream: the calls so far were start(), stop(), start() and then, possibly,
\* the second stop().
Reused == nstarts = 2 /\ rpc[1] # "unborn" /\ rpc[2] # "unborn"

\* C28: on a reused recorder the second session's writer thread ends only
\* while the second stop() is under way, the second stop() returns, and once it
\* has returned every chunk that was enqueued and not evicted is in a file.
C28_Reusable ==
    /\ [][(Reused /\ wpc[2] # "dead" /\ wpc'[2] = "dead") => a_pc # "idle"]_vars
    /\ []((Reused /\ StopReturned /\ a_ret.ret = 2) =>
             \A c \in enqueued \ evicted : InSomeFile(c))
    /\ (Reused /\ a_pc # "idle") ~> (a_pc = "idle")

\* C29: when start() has raised because no device opened, the recorder is as
\* before the call: no writer thread is running, no output file handle is
\* open, and no stream and no reader thread exist.
C29_FailedStartLeavesIdle ==
    (a_pc = "idle" /\ a_ret.op = "start_raised") =>
        /\ \A s \in Sessions : wpc[s] \in {"unborn", "dead"}
        /\ wave_handle = None
        /\ writer_thread = None
        /\ stream = None /\ reader_thread = None

\* The current iteration began with display_enabled false: the display is off
\* and was not tried in this iteration.
StartedHeadless ==
    /\ ~display_enabled
    /\ pc \notin LoopEnded
    /\ pc = "read" \/ "display" \notin attempted

\* C30 as stated: in an iteration that began headless no key is polled, blur
\* mode and recording stay as they are, and the loop is left for the cleanup
\* only when the read fails.
C30_HeadlessExitsOnlyOnEndOfStream ==
    /\ [](StartedHeadless => pc # "key")
    /\ [][StartedHeadless =>
             /\ UNCHANGED <<blur_type, blur_enabled, recording>>
             /\ pc' = "cleanup" => pc = "read"]_vars

\* C30: in an iteration that began headless no key is polled, blur mode and
\* recording stay as they are, and the loop is left for the cleanup only when
\* the read fails or when the headless sleep is interrupted.
C30_HeadlessExitsOnEndOrInterrupt ==
    /\ [](StartedHeadless => pc # "key")
    /\ [][StartedHeadless =>
             /\ UNCHANGED <<blur_type, blur_enabled, recording>>
             /\ pc' = "cleanup" => pc \in {"read", "sleep"}]_vars

\* A headless iteration after the display was lost, with the recording that
\* was active then still active at the sleep.
C30_Witness ==
    /\ pc = "sleep" /\ "display" \notin attempted
    /\ display_failed /\ ~display_enabled
    /\ recording /\ video_writer # None
    /\ frames[video_writer] # <<>>

\* C32: the chunks appended to each output file are chunks read from the
\* device, in the order they were read, none twice, and never the sentinel.
C32_FileIsSubsequence ==
    \A s \in Sessions :
        /\ \A i \in 1..Len(file[s]) :
              file[s][i] # None /\ file[s][i] \in 1..nchunks
        /\ \A i, j \in 1..Len(file[s]) : i < j => file[s][i] < file[s][j]

\* C33: the g and m keys select their algorithm and enable the blur from any
\* state; the b key flips the enabled flag and keeps the algorithm (so a
\* second b restores the mode); none of the three changes recording, and the
\* r key changes neither the algorithm nor the enabled flag.
C33_KeyCommands ==
    [][ /\ HandleKey(FALSE, "g") =>
              /\ blur_type' = "gaussian" /\ blur_enabled'
              /\ UNCHANGED <<recording, video_writer>>
        /\ HandleKey(FALSE, "m") =>
              /\ blur_type' = "mosaic" /\ blur_enabled'
              /\ UNCHANGED <<recording, video_writer>>
        /\ HandleKey(FALSE, "b") =>
              /\ blur_enabled' = ~blur_enabled
              /\ UNCHANGED <<blur_type, recording, video_writer>>
        /\ HandleKey(FALSE, "r") => UNCHANGED <<blur_type, blur_enabled>> ]_vars

\* A new iteration begins with mosaic selected, the blur switched off and a
\* recording on: the m, b and r keys have been handled.
C33_Witness ==
    /\ pc = "read" /\ iter >= 3
    /\ blur_type = "mosaic" /\ ~blur_enabled
    /\ recording /\ video_writer # None

\* C31: every image broadcast on the 'frame' event went through the blur of
\* the detected faces.
C31_OnlyBlurredBroadcast ==
    \A i \in DOMAIN emitted : emitted[i].blurred

\* C34: the import of services.pcd_main runs no iteration of the frame loop in
\* the server process and the server never stands inside that loop.
C34_ImportRunsNoLoop ==
    b_pc # "import_loop" /\ import_iters = 0

=============================================================================
